---- MODULE Spec2Model ----
(***************************************************************************)
(* Model of the step-trace graph algorithms of AlgorithmVisualizer:        *)
(* grafo.py (graph model and views) and algorithms/*.py (bfs, dfs,         *)
(* dijkstra, a_star, bellman_ford, kruskal, prim).  Every algorithm call   *)
(* is a state machine over its local variables; one action is one         *)
(* iteration of the algorithm's main loop, or its return.                  *)
(***************************************************************************)
EXTENDS Integers, Sequences, FiniteSets, TLC

VARIABLES ga, bfs, dfs, dij, ast, bf, kr, pr

vars == <<ga, bfs, dfs, dij, ast, bf, kr, pr>>

(***************************************************************************)
(* Bounds of the model.                                                    *)
(***************************************************************************)
\* Largest node count of the exhaustively enumerated graphs.
MaxN == 4
\* Largest edge weight (0 encodes "no edge").
MaxPeso == 3
\* Largest magnitude of a negative edge weight (Bellman-Ford only).
MaxNeg == 1
\* Largest node count of the graphs with negative weights.
MaxNSigno == 3
\* Entries of camino recorded while the path walk goes round a parent cycle
\* (the list itself grows without bound).
MaxCamino == 6
\* Node count of the large sparse graphs: their edges lie among the first
\* MaxN nodes, the other nodes are isolated.
NGrande == 10

(***************************************************************************)
(* Python values.                                                          *)
(***************************************************************************)
\* float('inf'): larger than every finite distance of the model.
Inf == 1000000
\* None: a value no node index, weight or distance of the model takes.
None == -2000000

Nodos(n) == 0 .. (n - 1)

\* Indexing a list or an array row of length n with i: i is accepted when
\* -n <= i < n (anything else raises IndexError), a negative i counts from
\* the end.
IndiceValido(n, i) == i >= 0 - n /\ i < n

Indice(n, i) == IF i < 0 THEN n + i ELSE i

\* d[k] = v on a dict (the key is added when absent).
Put(d, k, v) == [x \in (DOMAIN d) \cup {k} |-> IF x = k THEN v ELSE d[x]]

\* sum of a sequence of integers
RECURSIVE SumaSeq(_)
SumaSeq(s) == IF s = <<>> THEN 0 ELSE Head(s) + SumaSeq(Tail(s))

\* list.reverse()
Reverse(s) == [k \in 1 .. Len(s) |-> s[Len(s) + 1 - k]]

(***************************************************************************)
(* grafo.py                                                                *)
(***************************************************************************)
\* GrafoActivo.cargar: the matrix and N = len(matriz).
cargar(matriz) == [matriz |-> matriz, N |-> Cardinality(DOMAIN matriz)]

\* ga.matriz[u]
Fila(g, u) == g.matriz[Indice(g.N, u)]

\* Pairs i < j of an n-node graph.
Pares(n) == {p \in Nodos(n) \X Nodos(n) : p[1] < p[2]}

\* The symmetric, zero-diagonal n x n matrix with weight w[<<i, j>>] on i < j.
MatrizDe(n, w) ==
    [a \in Nodos(n) |-> [b \in Nodos(n) |->
        IF <<a, b>> \in DOMAIN w THEN w[<<a, b>>]
        ELSE IF <<b, a>> \in DOMAIN w THEN w[<<b, a>>]
        ELSE 0]]

\* All symmetric graphs of 1 .. maxn nodes with weights 0 .. MaxPeso.
GrafosDensos(maxn) ==
    UNION {{cargar(MatrizDe(n, w)) : w \in [Pares(n) -> 0 .. MaxPeso]} : n \in 1 .. maxn}

\* All symmetric graphs of 1 .. maxn nodes with weights -MaxNeg .. MaxPeso.
GrafosConSigno(maxn) ==
    UNION {{cargar(MatrizDe(n, w)) : w \in [Pares(n) -> (0 - MaxNeg) .. MaxPeso]} :
               n \in 1 .. maxn}

\* Graphs of n nodes whose edges lie among the first MaxN nodes.
GrafosGrandes(n) ==
    {cargar(MatrizDe(n, w)) : w \in [Pares(MaxN) -> 0 .. MaxPeso]}

\* Mutant: only the direction i < j of every undirected edge is listed.
RECURSIVE AristasUnSentido(_, _, _)
AristasUnSentido(m, n, k) ==
    IF k >= n * n THEN <<>>
    ELSE LET a == k \div n
             b == k % n
         IN  (IF a < b /\ m[a][b] # 0 THEN <<(<<a, b, m[a][b]>>)>> ELSE <<>>)
             \o AristasUnSentido(m, n, k + 1)

\* matriz_a_aristas: directed edges (i, j, m[i][j]) in row-major order.
RECURSIVE AristasDesde(_, _, _)
AristasDesde(m, n, k) ==
    IF k >= n * n THEN <<>>
    ELSE LET a == k \div n
             b == k % n
         IN  (IF m[a][b] # 0 THEN <<(<<a, b, m[a][b]>>)>> ELSE <<>>)
             \o AristasDesde(m, n, k + 1)

matriz_a_aristas(m) == AristasDesde(m, Cardinality(DOMAIN m), 0)

\* matriz_a_lista_ady: lista[i] = the (j, m[i][j]) with m[i][j] != 0, ascending j.
RECURSIVE FilaAdy(_, _, _, _)
FilaAdy(m, n, a, b) ==
    IF b >= n THEN <<>>
    ELSE (IF m[a][b] # 0 THEN <<(<<b, m[a][b]>>)>> ELSE <<>>) \o FilaAdy(m, n, a, b + 1)

matriz_a_lista_ady(m) ==
    [a \in DOMAIN m |-> FilaAdy(m, Cardinality(DOMAIN m), a, 0)]

\* math.ceil(math.sqrt(n))
CeilSqrt(n) == CHOOSE c \in 0 .. n : c * c >= n /\ \A e \in 0 .. n : e * e >= n => c <= e

\* generar_coords: node i sits at column i % columnas, row i // columnas.
generar_coords(n) ==
    LET columnas == CeilSqrt(n)
    IN  [a \in Nodos(n) |-> <<a % columnas, a \div columnas>>]

(***************************************************************************)
(* heapq on (priority, node) tuples.  Tuples are totally ordered, so a     *)
(* heap is observed only through the order of its pops: the queue is kept  *)
(* as the ascending sequence of its entries, duplicates included.          *)
(***************************************************************************)
\* Mutant: the comparison of priorities is reversed (a max-heap).
TuplaMayor(x, y) == x[1] > y[1] \/ (x[1] = y[1] /\ x[2] < y[2])

\* tuple comparison (p1, n1) < (p2, n2) with integer priorities
TuplaMenor(x, y) == x[1] < y[1] \/ (x[1] = y[1] /\ x[2] < y[2])

\* Mutant: the entry is put at the end (a plain FIFO queue).
heappushAlFinal(pq, e) == Append(pq, e)

RECURSIVE heappush(_, _)
heappush(pq, e) ==
    IF pq = <<>> THEN <<e>>
    ELSE IF TuplaMenor(e, Head(pq)) THEN <<e>> \o pq
    ELSE <<Head(pq)>> \o heappush(Tail(pq), e)

(***************************************************************************)
(* Path reconstruction shared by dijkstra, a_star and bellman_ford:        *)
(*   while n is not None and n in padre: camino.append(n); n = padre[n]    *)
(* followed by camino.reverse().  The walk is cut after Fuel appends (a    *)
(* parent cycle would make the Python loop run forever).                   *)
(***************************************************************************)
RECURSIVE Subir(_, _, _)
Subir(padre, n, fuel) ==
    IF n = None \/ n \notin DOMAIN padre \/ fuel = 0 THEN <<>>
    ELSE <<n>> \o Subir(padre, padre[n], fuel - 1)

Reconstruir(padre, objetivo) ==
    Reverse(Subir(padre, objetivo, Cardinality(DOMAIN padre) + 1))

\* The walk of the while loop never ends: following padre from n comes back
\* to a node already appended (more appends than padre has keys).
Ciclico(padre, n) ==
    Len(Subir(padre, n, Cardinality(DOMAIN padre) + 1)) > Cardinality(DOMAIN padre)

\* A run that was not called.
Idle == [pc |-> "idle"]

(***************************************************************************)
(* algorithms/dijkstra.py                                                  *)
(***************************************************************************)
\* Mutant: the distances start at 0 instead of float('inf').
DijkstraInitCeros(g, inicio, objetivo) ==
    [pc       |-> "loop",
     inicio   |-> inicio,
     objetivo |-> objetivo,
     dist     |-> [v \in Nodos(g.N) |-> 0],
     padre    |-> [v \in {inicio} |-> None],
     pq       |-> <<(<<0, inicio>>)>>,
     pasos    |-> <<>>,
     visitado |-> {},
     camino   |-> <<>>]

\* lines 29-34: the locals at the first test of `while pq`, or the
\* IndexError of dist[inicio] = 0 at line 31
DijkstraInit(g, inicio, objetivo) ==
    [pc       |-> IF IndiceValido(g.N, inicio) THEN "loop" ELSE "IndexError",
     inicio   |-> inicio,
     objetivo |-> objetivo,
     dist     |-> [v \in Nodos(g.N) |->
                      IF IndiceValido(g.N, inicio) /\ v = Indice(g.N, inicio)
                      THEN 0 ELSE Inf],
     padre    |-> [v \in {inicio} |-> None],
     pq       |-> IF IndiceValido(g.N, inicio) THEN <<(<<0, inicio>>)>> ELSE <<>>,
     pasos    |-> <<>>,
     visitado |-> {},
     camino   |-> <<>>]

\* Mutant: a neighbour is relaxed only the first time it is discovered.
RECURSIVE DijkstraRelajarPrimera(_, _, _, _, _)
DijkstraRelajarPrimera(g, s, u, costo, k) ==
    IF k >= g.N THEN s
    ELSE LET nuevo == costo + Fila(g, u)[k]
         IN  IF Fila(g, u)[k] > 0 /\ s.dist[k] = Inf
             THEN DijkstraRelajarPrimera(g,
                      [s EXCEPT !.dist  = [@ EXCEPT ![k] = nuevo],
                                !.padre = Put(@, k, u),
                                !.pq    = heappush(@, <<nuevo, k>>)],
                      u, costo, k + 1)
             ELSE DijkstraRelajarPrimera(g, s, u, costo, k + 1)

\* Mutant: the tentative distance is the weight of the edge alone.
RECURSIVE DijkstraRelajarSinCosto(_, _, _, _, _)
DijkstraRelajarSinCosto(g, s, u, costo, k) ==
    IF k >= g.N THEN s
    ELSE LET nuevo == Fila(g, u)[k]
         IN  IF Fila(g, u)[k] > 0 /\ nuevo < s.dist[k]
             THEN DijkstraRelajarSinCosto(g,
                      [s EXCEPT !.dist  = [@ EXCEPT ![k] = nuevo],
                                !.padre = Put(@, k, u),
                                !.pq    = heappush(@, <<nuevo, k>>)],
                      u, costo, k + 1)
             ELSE DijkstraRelajarSinCosto(g, s, u, costo, k + 1)

\* lines 58-64: relax the edges u-v for v = k .. N-1 with the popped cost
RECURSIVE DijkstraRelajar(_, _, _, _, _)
DijkstraRelajar(g, s, u, costo, k) ==
    IF k >= g.N THEN s
    ELSE LET nuevo == costo + Fila(g, u)[k]
         IN  IF Fila(g, u)[k] > 0 /\ nuevo < s.dist[k]
             THEN DijkstraRelajar(g,
                      [s EXCEPT !.dist  = [@ EXCEPT ![k] = nuevo],
                                !.padre = Put(@, k, u),
                                !.pq    = heappush(@, <<nuevo, k>>)],
                      u, costo, k + 1)
             ELSE DijkstraRelajar(g, s, u, costo, k + 1)

\* lines 46-51: the snapshot appended to pasos
DijkstraSnapshot(s, u) ==
    [actual |-> u, visitados |-> s.visitado, dist |-> s.dist, padre |-> s.padre]

\* Mutant: the Step stores the live dist list, padre dict and visitado set
\* ('dist': dist instead of dist[:]), so every Step shows the current state.
DijkstraVisitaAlias(g, s) ==
    LET costo == Head(s.pq)[1]
        u     == Head(s.pq)[2]
        s1    == [s EXCEPT !.pq = Tail(@), !.visitado = @ \cup {u}]
        s2    == [s1 EXCEPT !.pasos = Append(@, DijkstraSnapshot(s1, u))]
        r     == IF u = s.objetivo THEN [s2 EXCEPT !.pc = "camino"]
                 ELSE DijkstraRelajar(g, s2, u, costo, 0)
    IN  [r EXCEPT !.pasos = [k \in 1 .. Len(r.pasos) |->
            [r.pasos[k] EXCEPT !.dist = r.dist, !.padre = r.padre,
                               !.visitados = r.visitado]]]

\* Mutant: the edges of the goal are relaxed before the loop is left.
DijkstraVisitaRelajaObjetivo(g, s) ==
    LET costo == Head(s.pq)[1]
        u     == Head(s.pq)[2]
        s1    == [s EXCEPT !.pq = Tail(@), !.visitado = @ \cup {u}]
        s2    == [s1 EXCEPT !.pasos = Append(@, DijkstraSnapshot(s1, u))]
        r     == DijkstraRelajar(g, s2, u, costo, 0)
    IN  IF u = s.objetivo THEN [r EXCEPT !.pc = "camino"] ELSE r

\* lines 37-64, u not yet visited: visit, snapshot, stop at the goal or relax
DijkstraVisita(g, s) ==
    LET costo == Head(s.pq)[1]
        u     == Head(s.pq)[2]
        s1    == [s EXCEPT !.pq = Tail(@), !.visitado = @ \cup {u}]
        s2    == [s1 EXCEPT !.pasos = Append(@, DijkstraSnapshot(s1, u))]
    IN  IF u = s.objetivo THEN [s2 EXCEPT !.pc = "camino"]
        ELSE DijkstraRelajar(g, s2, u, costo, 0)

\* lines 37-41: the popped node was already processed
DijkstraSalta(s) == [s EXCEPT !.pq = Tail(@)]

\* lines 66-74: rebuild the path and return
DijkstraFin(s) == [s EXCEPT !.camino = Reconstruir(s.padre, s.objetivo), !.pc = "done"]

\* one step of the call
DijkstraPaso(g, s) ==
    IF s.pc = "loop" /\ s.pq # <<>>
    THEN IF Head(s.pq)[2] \in s.visitado THEN DijkstraSalta(s) ELSE DijkstraVisita(g, s)
    ELSE DijkstraFin(s)

\* the whole call: (pasos, camino, dist) are fields of the result
RECURSIVE DijkstraCorre(_, _)
DijkstraCorre(g, s) ==
    IF s.pc \in {"done", "IndexError"} THEN s ELSE DijkstraCorre(g, DijkstraPaso(g, s))

dijkstra_pasos(g, inicio, objetivo) == DijkstraCorre(g, DijkstraInit(g, inicio, objetivo))

DijkstraVisitar ==
    /\ dij.pc = "loop" /\ dij.pq # <<>>
    /\ Head(dij.pq)[2] \notin dij.visitado
    /\ dij' = DijkstraVisita(ga, dij)
    /\ UNCHANGED <<ga, bfs, dfs, ast, bf, kr, pr>>

DijkstraSaltar ==
    /\ dij.pc = "loop" /\ dij.pq # <<>>
    /\ Head(dij.pq)[2] \in dij.visitado
    /\ dij' = DijkstraSalta(dij)
    /\ UNCHANGED <<ga, bfs, dfs, ast, bf, kr, pr>>

DijkstraRetornar ==
    /\ dij.pc = "camino" \/ (dij.pc = "loop" /\ dij.pq = <<>>)
    /\ dij' = DijkstraFin(dij)
    /\ UNCHANGED <<ga, bfs, dfs, ast, bf, kr, pr>>

DijkstraNext == DijkstraVisitar \/ DijkstraSaltar \/ DijkstraRetornar

InitDijkstra ==
    /\ ga \in GrafosDensos(MaxN)
    /\ \E inicio \in Nodos(ga.N), objetivo \in Nodos(ga.N) :
           dij = DijkstraInit(ga, inicio, objetivo)
    /\ bfs = Idle /\ dfs = Idle /\ ast = Idle /\ bf = Idle /\ kr = Idle /\ pr = Idle

SpecDijkstra == InitDijkstra /\ [][DijkstraNext]_vars

(***************************************************************************)
(* algorithms/a_star.py                                                    *)
(***************************************************************************)
\* h(a, b) = math.hypot(dx, dy), kept as its square dx*dx + dy*dy
h2(coords, a, b) ==
    LET dx == coords[b][1] - coords[a][1]
        dy == coords[b][2] - coords[a][2]
    IN  dx * dx + dy * dy

\* A priority f = g + h is the pair <<g, h*h>>.  FMenor(x, y) is the exact
\* comparison x[1] + sqrt(x[2]) < y[1] + sqrt(y[2]).
FMenor(x, y) ==
    LET d == y[1] - x[1]
        a == x[2]
        b == y[2]
    IN  IF d >= 0
        THEN LET l == a - b - d * d
             IN  l < 0 \/ l * l < 4 * d * d * b
        ELSE LET r == b - a - d * d
             IN  r > 0 /\ 4 * d * d * a < r * r

\* tuple comparison (f1, n1) < (f2, n2) with the priorities above
TuplaFMenor(x, y) ==
    FMenor(x[1], y[1]) \/ (~FMenor(y[1], x[1]) /\ x[2] < y[2])

RECURSIVE heappush_f(_, _)
heappush_f(pq, e) ==
    IF pq = <<>> THEN <<e>>
    ELSE IF TuplaFMenor(e, Head(pq)) THEN <<e>> \o pq
    ELSE <<Head(pq)>> \o heappush_f(Tail(pq), e)

\* lines 36-50: the locals at the first test of `while pq`, or the KeyError
\* of coords[objetivo] / coords[inicio] in h(inicio, objetivo) at line 46
AStarInit(g, inicio, objetivo) ==
    [pc       |-> IF inicio \in Nodos(g.N) /\ objetivo \in Nodos(g.N)
                  THEN "loop" ELSE "KeyError",
     inicio   |-> inicio,
     objetivo |-> objetivo,
     coords   |-> generar_coords(g.N),
     pq       |-> IF inicio \in Nodos(g.N) /\ objetivo \in Nodos(g.N)
                  THEN <<(<<(<<0, h2(generar_coords(g.N), inicio, objetivo)>>), inicio>>)>>
                  ELSE <<>>,
     g        |-> [v \in {inicio} |-> 0],
     padre    |-> [v \in {inicio} |-> None],
     pasos    |-> <<>>,
     visitado |-> {},
     camino   |-> <<>>]

\* Mutant: the accumulated cost leaves out the weight of the edge u-v.
RECURSIVE AStarExpandirSinPeso(_, _, _, _)
AStarExpandirSinPeso(g, s, u, k) ==
    IF k >= g.N THEN s
    ELSE LET nuevo == s.g[u]
         IN  IF g.matriz[u][k] > 0 /\ (k \notin DOMAIN s.g \/ nuevo < s.g[k])
             THEN AStarExpandirSinPeso(g,
                      [s EXCEPT !.g     = Put(@, k, nuevo),
                                !.padre = Put(@, k, u),
                                !.pq    = heappush_f(@,
                                    <<(<<nuevo, h2(s.coords, k, s.objetivo)>>), k>>)],
                      u, k + 1)
             ELSE AStarExpandirSinPeso(g, s, u, k + 1)

\* lines 73-81: expand the neighbours v = k .. N-1 of u
RECURSIVE AStarExpandir(_, _, _, _)
AStarExpandir(g, s, u, k) ==
    IF k >= g.N THEN s
    ELSE LET nuevo == s.g[u] + g.matriz[u][k]
         IN  IF g.matriz[u][k] > 0 /\ (k \notin DOMAIN s.g \/ nuevo < s.g[k])
             THEN AStarExpandir(g,
                      [s EXCEPT !.g     = Put(@, k, nuevo),
                                !.padre = Put(@, k, u),
                                !.pq    = heappush_f(@,
                                    <<(<<nuevo, h2(s.coords, k, s.objetivo)>>), k>>)],
                      u, k + 1)
             ELSE AStarExpandir(g, s, u, k + 1)

\* lines 61-66: the snapshot appended to pasos
AStarSnapshot(s, u) ==
    [actual |-> u, visitados |-> s.visitado, g |-> s.g, padre |-> s.padre]

\* lines 53-81, u not yet visited
AStarVisita(g, s) ==
    LET u  == Head(s.pq)[2]
        s1 == [s EXCEPT !.pq = Tail(@), !.visitado = @ \cup {u}]
        s2 == [s1 EXCEPT !.pasos = Append(@, AStarSnapshot(s1, u))]
    IN  IF u = s.objetivo THEN [s2 EXCEPT !.pc = "camino"]
        ELSE AStarExpandir(g, s2, u, 0)

\* lines 53-56: the popped node was already processed
AStarSalta(s) == [s EXCEPT !.pq = Tail(@)]

\* lines 83-91: rebuild the path and return
AStarFin(s) == [s EXCEPT !.camino = Reconstruir(s.padre, s.objetivo), !.pc = "done"]

AStarPaso(g, s) ==
    IF s.pc = "loop" /\ s.pq # <<>>
    THEN IF Head(s.pq)[2] \in s.visitado THEN AStarSalta(s) ELSE AStarVisita(g, s)
    ELSE AStarFin(s)

RECURSIVE AStarCorre(_, _)
AStarCorre(g, s) ==
    IF s.pc \in {"done", "KeyError"} THEN s ELSE AStarCorre(g, AStarPaso(g, s))

a_star_pasos(g, inicio, objetivo) == AStarCorre(g, AStarInit(g, inicio, objetivo))

AStarVisitar ==
    /\ ast.pc = "loop" /\ ast.pq # <<>>
    /\ Head(ast.pq)[2] \notin ast.visitado
    /\ ast' = AStarVisita(ga, ast)
    /\ UNCHANGED <<ga, bfs, dfs, dij, bf, kr, pr>>

AStarSaltar ==
    /\ ast.pc = "loop" /\ ast.pq # <<>>
    /\ Head(ast.pq)[2] \in ast.visitado
    /\ ast' = AStarSalta(ast)
    /\ UNCHANGED <<ga, bfs, dfs, dij, bf, kr, pr>>

AStarRetornar ==
    /\ ast.pc = "camino" \/ (ast.pc = "loop" /\ ast.pq = <<>>)
    /\ ast' = AStarFin(ast)
    /\ UNCHANGED <<ga, bfs, dfs, dij, bf, kr, pr>>

AStarNext == AStarVisitar \/ AStarSaltar \/ AStarRetornar

\* The large graphs give the grid of generar_coords four columns; start and
\* goal are drawn from the nodes that can carry edges.
InitAStar ==
    /\ ga \in GrafosDensos(MaxN) \cup GrafosGrandes(NGrande)
    /\ \E inicio \in Nodos(ga.N) \cap Nodos(MaxN), objetivo \in Nodos(ga.N) \cap Nodos(MaxN) :
           ast = AStarInit(ga, inicio, objetivo)
    /\ bfs = Idle /\ dfs = Idle /\ dij = Idle /\ bf = Idle /\ kr = Idle /\ pr = Idle

\* A* towards a goal among the isolated nodes of a large graph
InitAStarLejos ==
    /\ ga \in GrafosGrandes(NGrande)
    /\ \E inicio \in Nodos(MaxN), objetivo \in Nodos(ga.N) \ Nodos(MaxN) :
           ast = AStarInit(ga, inicio, objetivo)
    /\ bfs = Idle /\ dfs = Idle /\ dij = Idle /\ bf = Idle /\ kr = Idle /\ pr = Idle

SpecAStar == InitAStar /\ [][AStarNext]_vars

(***************************************************************************)
(* algorithms/bellman_ford.py                                              *)
(***************************************************************************)
\* lines 30-35: the locals before the first outer iteration, or the
\* IndexError of dist[origen] = 0 at line 33
BellmanInit(g, origen, objetivo) ==
    [pc       |-> IF IndiceValido(g.N, origen) THEN "loop" ELSE "IndexError",
     origen   |-> origen,
     objetivo |-> objetivo,
     grafo    |-> matriz_a_aristas(g.matriz),
     dist     |-> [v \in Nodos(g.N) |->
                      IF IndiceValido(g.N, origen) /\ v = Indice(g.N, origen)
                      THEN 0 ELSE Inf],
     padre    |-> [v \in {origen} |-> None],
     pasos    |-> <<>>,
     i        |-> 0,
     cambio_en_iteracion |-> FALSE,
     camino   |-> <<>>]

\* lines 52-62: the Step of a successful relaxation
BellmanRelajacion(s, u, v, peso, dist_anterior) ==
    [iter |-> s.i + 1, dist |-> s.dist, padre |-> s.padre, cambio |-> TRUE,
     arista_evaluada |-> <<u, v>>, peso |-> peso,
     dist_anterior |-> dist_anterior, dist_nueva |-> s.dist[v], tipo |-> "relajacion"]

\* lines 66-72: the Step of an iteration that relaxed nothing
BellmanSinCambios(s) ==
    [iter |-> s.i + 1, dist |-> s.dist, padre |-> s.padre, cambio |-> FALSE,
     tipo |-> "sin_cambios"]

\* Mutant: an edge is relaxed also when it brings no strict improvement.
RECURSIVE BellmanAristasNoEstricta(_, _)
BellmanAristasNoEstricta(s, k) ==
    IF k > Len(s.grafo) THEN s
    ELSE LET u == s.grafo[k][1]
             v == s.grafo[k][2]
             peso == s.grafo[k][3]
             dist_anterior == s.dist[v]
         IN  IF s.dist[u] # Inf /\ s.dist[u] + peso <= s.dist[v]
             THEN LET s1 == [s EXCEPT !.dist = [@ EXCEPT ![v] = s.dist[u] + peso],
                                      !.padre = Put(@, v, u),
                                      !.cambio_en_iteracion = TRUE]
                  IN  BellmanAristasNoEstricta(
                          [s1 EXCEPT !.pasos =
                              Append(@, BellmanRelajacion(s1, u, v, peso, dist_anterior))],
                          k + 1)
             ELSE BellmanAristasNoEstricta(s, k + 1)

\* lines 42-62: examine the edges grafo[k ..] in list order
RECURSIVE BellmanAristas(_, _)
BellmanAristas(s, k) ==
    IF k > Len(s.grafo) THEN s
    ELSE LET u == s.grafo[k][1]
             v == s.grafo[k][2]
             peso == s.grafo[k][3]
             dist_anterior == s.dist[v]
         IN  IF s.dist[u] # Inf /\ s.dist[u] + peso < s.dist[v]
             THEN LET s1 == [s EXCEPT !.dist = [@ EXCEPT ![v] = s.dist[u] + peso],
                                      !.padre = Put(@, v, u),
                                      !.cambio_en_iteracion = TRUE]
                  IN  BellmanAristas(
                          [s1 EXCEPT !.pasos =
                              Append(@, BellmanRelajacion(s1, u, v, peso, dist_anterior))],
                          k + 1)
             ELSE BellmanAristas(s, k + 1)

\* Mutant: no `break` after the 'sin_cambios' Step, the outer loop goes on.
BellmanIteracionSinBreak(g, s) ==
    LET s1 == BellmanAristas([s EXCEPT !.cambio_en_iteracion = FALSE], 1)
    IN  IF ~s1.cambio_en_iteracion
        THEN [s1 EXCEPT !.pasos = Append(@, BellmanSinCambios(s1)), !.i = @ + 1]
        ELSE [s1 EXCEPT !.i = @ + 1]

\* lines 38-73: one outer iteration, i = s.i
BellmanIteracion(g, s) ==
    LET s1 == BellmanAristas([s EXCEPT !.cambio_en_iteracion = FALSE], 1)
    IN  IF ~s1.cambio_en_iteracion
        THEN [s1 EXCEPT !.pasos = Append(@, BellmanSinCambios(s1)), !.pc = "camino"]
        ELSE [s1 EXCEPT !.i = @ + 1]

\* lines 75-83: rebuild the path and return
BellmanFin(s) == [s EXCEPT !.camino = Reconstruir(s.padre, s.objetivo), !.pc = "done"]

\* lines 76-77 when padre holds a cycle reachable from objetivo: the while
\* loop of line 78 is entered with n = objetivo and its test never fails
BellmanCuelga(s) == ("n" :> s.objetivo) @@ [s EXCEPT !.camino = <<>>, !.pc = "colgado"]

\* lines 78-80: one iteration of the while loop, camino.append(n); n = padre[n]
BellmanGira(s) ==
    [s EXCEPT !.camino = IF Len(@) < MaxCamino THEN Append(@, s.n) ELSE @,
              !.n = s.padre[s.n]]

BellmanPaso(g, s) ==
    IF s.pc = "loop" /\ s.i < g.N - 1 THEN BellmanIteracion(g, s)
    ELSE IF Ciclico(s.padre, s.objetivo) THEN BellmanCuelga(s)
    ELSE BellmanFin(s)

RECURSIVE BellmanCorre(_, _)
BellmanCorre(g, s) ==
    IF s.pc \in {"done", "colgado", "IndexError"} THEN s
    ELSE BellmanCorre(g, BellmanPaso(g, s))

bellman_ford_pasos(g, origen, objetivo) == BellmanCorre(g, BellmanInit(g, origen, objetivo))

BellmanIterar ==
    /\ bf.pc = "loop" /\ bf.i < ga.N - 1
    /\ bf' = BellmanIteracion(ga, bf)
    /\ UNCHANGED <<ga, bfs, dfs, dij, ast, kr, pr>>

BellmanRetornar ==
    /\ bf.pc = "camino" \/ (bf.pc = "loop" /\ bf.i >= ga.N - 1)
    /\ ~Ciclico(bf.padre, bf.objetivo)
    /\ bf' = BellmanFin(bf)
    /\ UNCHANGED <<ga, bfs, dfs, dij, ast, kr, pr>>

\* the path reconstruction starts on a parent cycle
BellmanColgar ==
    /\ bf.pc = "camino" \/ (bf.pc = "loop" /\ bf.i >= ga.N - 1)
    /\ Ciclico(bf.padre, bf.objetivo)
    /\ bf' = BellmanCuelga(bf)
    /\ UNCHANGED <<ga, bfs, dfs, dij, ast, kr, pr>>

\* the while loop goes round the cycle once more: the call never returns
BellmanGirar ==
    /\ bf.pc = "colgado"
    /\ bf.n # None /\ bf.n \in DOMAIN bf.padre
    /\ bf' = BellmanGira(bf)
    /\ UNCHANGED <<ga, bfs, dfs, dij, ast, kr, pr>>

BellmanNext == BellmanIterar \/ BellmanRetornar

InitBellman ==
    /\ ga \in GrafosDensos(MaxN)
    /\ \E origen \in Nodos(ga.N), objetivo \in Nodos(ga.N) :
           bf = BellmanInit(ga, origen, objetivo)
    /\ bfs = Idle /\ dfs = Idle /\ dij = Idle /\ ast = Idle /\ kr = Idle /\ pr = Idle

SpecBellman == InitBellman /\ [][BellmanNext]_vars

\* Bellman-Ford on weight matrices that may hold negative entries
BellmanNextSigno == BellmanIterar \/ BellmanRetornar \/ BellmanColgar \/ BellmanGirar

\* the outer loop has an iteration to run
BellmanIterable == bf.pc = "loop" /\ bf.i < ga.N - 1

InitBellmanSigno ==
    /\ ga \in GrafosDensos(MaxN) \cup GrafosConSigno(MaxNSigno)
    /\ \E origen \in Nodos(ga.N), objetivo \in Nodos(ga.N) :
           bf = BellmanInit(ga, origen, objetivo)
    /\ bfs = Idle /\ dfs = Idle /\ dij = Idle /\ ast = Idle /\ kr = Idle /\ pr = Idle

SpecBellmanSigno == InitBellmanSigno /\ [][BellmanNextSigno]_vars

\* the graphs with negative weights alone
InitBellmanNegativo ==
    /\ ga \in GrafosConSigno(MaxNSigno)
    /\ \E origen \in Nodos(ga.N), objetivo \in Nodos(ga.N) :
           bf = BellmanInit(ga, origen, objetivo)
    /\ bfs = Idle /\ dfs = Idle /\ dij = Idle /\ ast = Idle /\ kr = Idle /\ pr = Idle

\* The call runs to its end without being suspended: a step that can be
\* taken is taken.  The weak fairness of BellmanIterar is written with its
\* enabling condition BellmanIterable.
SpecBellmanSignoJusto ==
    /\ InitBellmanNegativo /\ [][BellmanNextSigno]_vars
    /\ WF_vars(BellmanRetornar \/ BellmanColgar \/ BellmanGirar)
    /\ ([]<>(~BellmanIterable) \/ []<><<BellmanIterar>>_vars)

(***************************************************************************)
(* algorithms/bfs.py                                                       *)
(***************************************************************************)
\* lines 29-32
BfsInit(g, inicio) ==
    [pc       |-> "loop",
     inicio   |-> inicio,
     visitado |-> {},
     cola     |-> <<inicio>>,
     padre    |-> [v \in {inicio} |-> None],
     pasos    |-> <<>>]

\* Mutant: the loop over the neighbours starts at u instead of 0.
RECURSIVE BfsExplorarDesdeU(_, _, _, _)
BfsExplorarDesdeU(g, s, u, k) ==
    IF k >= g.N THEN s
    ELSE IF k >= u /\ Fila(g, u)[k] > 0 /\ k \notin s.visitado
         THEN BfsExplorarDesdeU(g,
                  [s EXCEPT !.padre = IF k \notin DOMAIN @ THEN Put(@, k, u) ELSE @,
                            !.cola  = Append(@, k)],
                  u, k + 1)
         ELSE BfsExplorarDesdeU(g, s, u, k + 1)

\* Mutant: neighbours are put at the front of the queue (appendleft).
RECURSIVE BfsExplorarAlFrente(_, _, _, _)
BfsExplorarAlFrente(g, s, u, k) ==
    IF k >= g.N THEN s
    ELSE IF Fila(g, u)[k] > 0 /\ k \notin s.visitado
         THEN BfsExplorarAlFrente(g,
                  [s EXCEPT !.padre = IF k \notin DOMAIN @ THEN Put(@, k, u) ELSE @,
                            !.cola  = <<k>> \o @],
                  u, k + 1)
         ELSE BfsExplorarAlFrente(g, s, u, k + 1)

\* Mutant: the parent is assigned on every discovery (no `if v not in padre`).
RECURSIVE BfsExplorarSobrescribe(_, _, _, _)
BfsExplorarSobrescribe(g, s, u, k) ==
    IF k >= g.N THEN s
    ELSE IF Fila(g, u)[k] > 0 /\ k \notin s.visitado
         THEN BfsExplorarSobrescribe(g,
                  [s EXCEPT !.padre = Put(@, k, u),
                            !.cola  = Append(@, k)],
                  u, k + 1)
         ELSE BfsExplorarSobrescribe(g, s, u, k + 1)

\* lines 47-51: explore the neighbours v = k .. N-1 of u
RECURSIVE BfsExplorar(_, _, _, _)
BfsExplorar(g, s, u, k) ==
    IF k >= g.N THEN s
    ELSE IF Fila(g, u)[k] > 0 /\ k \notin s.visitado
         THEN BfsExplorar(g,
                  [s EXCEPT !.padre = IF k \notin DOMAIN @ THEN Put(@, k, u) ELSE @,
                            !.cola  = Append(@, k)],
                  u, k + 1)
         ELSE BfsExplorar(g, s, u, k + 1)

\* lines 40-44: the snapshot appended to pasos
BfsSnapshot(s, u) == [actual |-> u, visitados |-> s.visitado, padre |-> s.padre]

\* lines 35-51, u not yet visited; ga.matriz[u] at line 48 raises IndexError
\* when u is not an index of the matrix
BfsVisita(g, s) ==
    LET u  == Head(s.cola)
        s1 == [s EXCEPT !.cola = Tail(@), !.visitado = @ \cup {u}]
        s2 == [s1 EXCEPT !.pasos = Append(@, BfsSnapshot(s1, u))]
    IN  IF IndiceValido(g.N, u) THEN BfsExplorar(g, s2, u, 0)
        ELSE [s2 EXCEPT !.pc = "IndexError"]

\* lines 35-37: the dequeued node was already visited
BfsSalta(s) == [s EXCEPT !.cola = Tail(@)]

\* line 53
BfsFin(s) == [s EXCEPT !.pc = "done"]

BfsPaso(g, s) ==
    IF s.cola # <<>>
    THEN IF Head(s.cola) \in s.visitado THEN BfsSalta(s) ELSE BfsVisita(g, s)
    ELSE BfsFin(s)

RECURSIVE BfsCorre(_, _)
BfsCorre(g, s) ==
    IF s.pc \in {"done", "IndexError"} THEN s ELSE BfsCorre(g, BfsPaso(g, s))

bfs_pasos(g, inicio) == BfsCorre(g, BfsInit(g, inicio))

\* Mutant: the visited set is shared with a running depth-first traversal.
BfsVisitarCompartido ==
    /\ bfs.pc = "loop" /\ bfs.cola # <<>>
    /\ Head(bfs.cola) \notin bfs.visitado
    /\ bfs' = BfsVisita(ga, [bfs EXCEPT !.visitado =
                                 IF dfs.pc = "idle" THEN @ ELSE @ \cup dfs.visitado])
    /\ UNCHANGED <<ga, dfs, dij, ast, bf, kr, pr>>

BfsVisitar ==
    /\ bfs.pc = "loop" /\ bfs.cola # <<>>
    /\ Head(bfs.cola) \notin bfs.visitado
    /\ bfs' = BfsVisita(ga, bfs)
    /\ UNCHANGED <<ga, dfs, dij, ast, bf, kr, pr>>

BfsSaltar ==
    /\ bfs.pc = "loop" /\ bfs.cola # <<>>
    /\ Head(bfs.cola) \in bfs.visitado
    /\ bfs' = BfsSalta(bfs)
    /\ UNCHANGED <<ga, dfs, dij, ast, bf, kr, pr>>

BfsRetornar ==
    /\ bfs.pc = "loop" /\ bfs.cola = <<>>
    /\ bfs' = BfsFin(bfs)
    /\ UNCHANGED <<ga, dfs, dij, ast, bf, kr, pr>>

BfsNext == BfsVisitar \/ BfsSaltar \/ BfsRetornar

InitBfs ==
    /\ ga \in GrafosDensos(MaxN)
    /\ \E inicio \in Nodos(ga.N) : bfs = BfsInit(ga, inicio)
    /\ dfs = Idle /\ dij = Idle /\ ast = Idle /\ bf = Idle /\ kr = Idle /\ pr = Idle

SpecBfs == InitBfs /\ [][BfsNext]_vars

(***************************************************************************)
(* algorithms/dfs.py.  The recursion of _dfs is the stack `pila` of the    *)
(* active calls: a frame <<u, k>> is the call _dfs(u) whose for loop will  *)
(* next test v = k.                                                        *)
(***************************************************************************)
\* lines 23-25, before the call _dfs(inicio)
DfsInit(g, inicio) ==
    [pc       |-> "call",
     inicio   |-> inicio,
     visitado |-> {},
     padre    |-> [v \in {inicio} |-> None],
     pasos    |-> <<>>,
     pila     |-> <<>>]

\* lines 32-36: the snapshot appended to pasos
DfsSnapshot(s, u) == [actual |-> u, visitados |-> s.visitado, padre |-> s.padre]

\* lines 29-36: entry of the call _dfs(u); ga.matriz[u] at line 40 raises
\* IndexError when u is not an index of the matrix
DfsEntra(g, s, u) ==
    LET s1 == [s EXCEPT !.visitado = @ \cup {u}]
    IN  [s1 EXCEPT !.pasos = Append(@, DfsSnapshot(s1, u)),
                   !.pila  = Append(@, <<u, 0>>),
                   !.pc    = IF IndiceValido(g.N, u) THEN "loop" ELSE "IndexError"]

\* Mutant: the loop descends to the highest-index unvisited neighbour.
RECURSIVE DfsSiguienteMayor(_, _, _, _)
DfsSiguienteMayor(g, s, u, k) ==
    IF k >= g.N THEN g.N
    ELSE LET resto == DfsSiguienteMayor(g, s, u, k + 1)
         IN  IF resto < g.N THEN resto
             ELSE IF Fila(g, u)[k] > 0 /\ k \notin s.visitado THEN k
             ELSE g.N

\* lines 39-40: the next v >= k the loop of _dfs(u) descends to, or N
RECURSIVE DfsSiguiente(_, _, _, _)
DfsSiguiente(g, s, u, k) ==
    IF k >= g.N THEN g.N
    ELSE IF Fila(g, u)[k] > 0 /\ k \notin s.visitado THEN k
    ELSE DfsSiguiente(g, s, u, k + 1)

DfsTope(s) == s.pila[Len(s.pila)]

\* lines 39-42: the loop of the innermost call reaches v, sets padre[v]
\* and calls _dfs(v)
DfsDesciende(g, s) ==
    LET u == DfsTope(s)[1]
        v == DfsSiguiente(g, s, u, DfsTope(s)[2])
    IN  DfsEntra(g, [s EXCEPT !.padre = Put(@, v, u),
                           !.pila  = [@ EXCEPT ![Len(@)] = <<u, v + 1>>]], v)

\* the loop of the innermost call ends: the call returns (line 45 when it
\* was the call of line 44)
DfsRegresa(s) ==
    [s EXCEPT !.pila = SubSeq(@, 1, Len(@) - 1),
              !.pc   = IF Len(s.pila) = 1 THEN "done" ELSE "loop"]

DfsPaso(g, s) ==
    IF s.pc = "call" THEN DfsEntra(g, s, s.inicio)
    ELSE IF DfsSiguiente(g, s, DfsTope(s)[1], DfsTope(s)[2]) < g.N
         THEN DfsDesciende(g, s)
         ELSE DfsRegresa(s)

RECURSIVE DfsCorre(_, _)
DfsCorre(g, s) ==
    IF s.pc \in {"done", "IndexError"} THEN s ELSE DfsCorre(g, DfsPaso(g, s))

dfs_pasos(g, inicio) == DfsCorre(g, DfsInit(g, inicio))

DfsLlamar ==
    /\ dfs.pc = "call"
    /\ dfs' = DfsEntra(ga, dfs, dfs.inicio)
    /\ UNCHANGED <<ga, bfs, dij, ast, bf, kr, pr>>

DfsDescender ==
    /\ dfs.pc = "loop"
    /\ DfsSiguiente(ga, dfs, DfsTope(dfs)[1], DfsTope(dfs)[2]) < ga.N
    /\ dfs' = DfsDesciende(ga, dfs)
    /\ UNCHANGED <<ga, bfs, dij, ast, bf, kr, pr>>

DfsRegresar ==
    /\ dfs.pc = "loop"
    /\ DfsSiguiente(ga, dfs, DfsTope(dfs)[1], DfsTope(dfs)[2]) >= ga.N
    /\ dfs' = DfsRegresa(dfs)
    /\ UNCHANGED <<ga, bfs, dij, ast, bf, kr, pr>>

DfsNext == DfsLlamar \/ DfsDescender \/ DfsRegresar

InitDfs ==
    /\ ga \in GrafosDensos(MaxN)
    /\ \E inicio \in Nodos(ga.N) : dfs = DfsInit(ga, inicio)
    /\ bfs = Idle /\ dij = Idle /\ ast = Idle /\ bf = Idle /\ kr = Idle /\ pr = Idle

SpecDfs == InitDfs /\ [][DfsNext]_vars

(***************************************************************************)
(* algorithms/kruskal.py                                                   *)
(***************************************************************************)
\* lines 28-33: the edges (i, j, m[i][j]) of the upper triangle, row-major
RECURSIVE AristasSup(_, _, _)
AristasSup(m, n, k) ==
    IF k >= n * n THEN <<>>
    ELSE LET a == k \div n
             b == k % n
         IN  (IF a < b /\ m[a][b] > 0 THEN <<(<<a, b, m[a][b]>>)>> ELSE <<>>)
             \o AristasSup(m, n, k + 1)

\* Mutant: e goes before the entries of its own weight (an unstable order).
RECURSIVE InsertarNoEstable(_, _)
InsertarNoEstable(l, e) ==
    IF l = <<>> THEN <<e>>
    ELSE IF e[3] <= Head(l)[3] THEN <<e>> \o l
    ELSE <<Head(l)>> \o InsertarNoEstable(Tail(l), e)

\* stable insertion of e by its weight e[3]: after every entry of weight <= e[3]
RECURSIVE InsertarPorPeso(_, _)
InsertarPorPeso(l, e) ==
    IF l = <<>> THEN <<e>>
    ELSE IF e[3] < Head(l)[3] THEN <<e>> \o l
    ELSE <<Head(l)>> \o InsertarPorPeso(Tail(l), e)

\* Mutant: the edge list is left in enumeration order (no sort).
SinOrdenar(l) == l

\* lines 27-35: sorted(..., key=lambda x: x[2]), a stable sort
RECURSIVE sorted(_)
sorted(l) ==
    IF l = <<>> THEN <<>>
    ELSE InsertarPorPeso(sorted(SubSeq(l, 1, Len(l) - 1)), l[Len(l)])

\* lines 40-44: find with path compression; the root and the updated padre_uf
RECURSIVE find(_, _)
find(padre_uf, x) ==
    IF padre_uf[x] # x
    THEN LET r == find(padre_uf, padre_uf[x])
         IN  [raiz |-> r.raiz, padre_uf |-> [r.padre_uf EXCEPT ![x] = r.raiz]]
    ELSE [raiz |-> x, padre_uf |-> padre_uf]

\* lines 27-47, before the first edge is examined; k indexes the for loop
KruskalInit(g) ==
    [pc       |-> "loop",
     aristas  |-> sorted(AristasSup(g.matriz, g.N, 0)),
     padre_uf |-> [x \in Nodos(g.N) |-> x],
     mst      |-> <<>>,
     pasos    |-> <<>>,
     k        |-> 1]

\* lines 58-63: the Step of an examined edge
KruskalRegistro(u, v, w, aceptada, mst) ==
    [edge |-> <<u, v>>, w |-> w, ok |-> aceptada, mst |-> mst]

\* Mutant: the two roots are not compared, every edge is accepted.
KruskalExaminaTodo(s) ==
    LET u  == s.aristas[s.k][1]
        v  == s.aristas[s.k][2]
        w  == s.aristas[s.k][3]
        fu == find(s.padre_uf, u)
        fv == find(fu.padre_uf, v)
        mst1 == Append(s.mst, <<u, v>>)
    IN  [s EXCEPT !.padre_uf = [fv.padre_uf EXCEPT ![fu.raiz] = fv.raiz],
                  !.mst      = mst1,
                  !.pasos    = Append(@, KruskalRegistro(u, v, w, TRUE, mst1)),
                  !.k        = @ + 1]

\* Mutant: the union attaches the node u itself, not its root, under root(v).
KruskalExaminaSinRaiz(s) ==
    LET u  == s.aristas[s.k][1]
        v  == s.aristas[s.k][2]
        w  == s.aristas[s.k][3]
        fu == find(s.padre_uf, u)
        fv == find(fu.padre_uf, v)
        ru == fu.raiz
        rv == fv.raiz
        aceptada == (ru # rv)
        mst1 == IF aceptada THEN Append(s.mst, <<u, v>>) ELSE s.mst
    IN  [s EXCEPT !.padre_uf = IF aceptada THEN [fv.padre_uf EXCEPT ![u] = rv]
                               ELSE fv.padre_uf,
                  !.mst      = mst1,
                  !.pasos    = Append(@, KruskalRegistro(u, v, w, aceptada, mst1)),
                  !.k        = @ + 1]

\* lines 49-63: examine the edge aristas[k]
KruskalExamina(s) ==
    LET u  == s.aristas[s.k][1]
        v  == s.aristas[s.k][2]
        w  == s.aristas[s.k][3]
        fu == find(s.padre_uf, u)
        fv == find(fu.padre_uf, v)
        ru == fu.raiz
        rv == fv.raiz
        aceptada == (ru # rv)
        mst1 == IF aceptada THEN Append(s.mst, <<u, v>>) ELSE s.mst
    IN  [s EXCEPT !.padre_uf = IF aceptada THEN [fv.padre_uf EXCEPT ![ru] = rv]
                               ELSE fv.padre_uf,
                  !.mst      = mst1,
                  !.pasos    = Append(@, KruskalRegistro(u, v, w, aceptada, mst1)),
                  !.k        = @ + 1]

\* line 65
KruskalFin(s) == [s EXCEPT !.pc = "done"]

KruskalPaso(s) == IF s.k <= Len(s.aristas) THEN KruskalExamina(s) ELSE KruskalFin(s)

RECURSIVE KruskalCorre(_)
KruskalCorre(s) == IF s.pc = "done" THEN s ELSE KruskalCorre(KruskalPaso(s))

kruskal_pasos(g) == KruskalCorre(KruskalInit(g))

KruskalExaminar ==
    /\ kr.pc = "loop" /\ kr.k <= Len(kr.aristas)
    /\ kr' = KruskalExamina(kr)
    /\ UNCHANGED <<ga, bfs, dfs, dij, ast, bf, pr>>

KruskalRetornar ==
    /\ kr.pc = "loop" /\ kr.k > Len(kr.aristas)
    /\ kr' = KruskalFin(kr)
    /\ UNCHANGED <<ga, bfs, dfs, dij, ast, bf, pr>>

KruskalNext == KruskalExaminar \/ KruskalRetornar

InitKruskal ==
    /\ ga \in GrafosDensos(MaxN)
    /\ kr = KruskalInit(ga)
    /\ bfs = Idle /\ dfs = Idle /\ dij = Idle /\ ast = Idle /\ bf = Idle /\ pr = Idle

SpecKruskal == InitKruskal /\ [][KruskalNext]_vars

(***************************************************************************)
(* algorithms/prim.py                                                      *)
(***************************************************************************)
\* lines 28-33
PrimInit(g) ==
    [pc       |-> "loop",
     lista    |-> matriz_a_lista_ady(g.matriz),
     visitado |-> [x \in Nodos(g.N) |-> FALSE],
     heap     |-> <<(<<0, 0>>)>>,
     mst      |-> <<>>,
     padre    |-> [x \in Nodos(g.N) |-> -1],
     pasos    |-> <<>>]

\* [i for i in range(N) if visitado[i]]
RECURSIVE Marcados(_, _, _)
Marcados(visitado, n, k) ==
    IF k >= n THEN <<>>
    ELSE (IF visitado[k] THEN <<k>> ELSE <<>>) \o Marcados(visitado, n, k + 1)

\* lines 48-52: the snapshot appended to pasos
PrimSnapshot(g, s, u) ==
    [actual |-> u, visitados |-> Marcados(s.visitado, g.N, 0), mst |-> s.mst]

\* lines 55-58: push the edges lista[u][k ..] towards nodes not yet included
RECURSIVE PrimEmpujar(_, _, _)
PrimEmpujar(s, u, k) ==
    IF k > Len(s.lista[u]) THEN s
    ELSE LET v == s.lista[u][k][1]
             w == s.lista[u][k][2]
         IN  IF ~s.visitado[v]
             THEN PrimEmpujar([s EXCEPT !.padre = [@ EXCEPT ![v] = u],
                                        !.heap  = heappush(@, <<w, v>>)],
                              u, k + 1)
             ELSE PrimEmpujar(s, u, k + 1)

\* Mutant: the edge (padre[u], u) is appended for the root too.
PrimIncluyeSinRaiz(g, s) ==
    LET u  == Head(s.heap)[2]
        s1 == [s EXCEPT !.heap = Tail(@),
                        !.visitado = [@ EXCEPT ![u] = TRUE],
                        !.mst = Append(@, <<s.padre[u], u>>)]
        s2 == [s1 EXCEPT !.pasos = Append(@, PrimSnapshot(g, s1, u))]
    IN  PrimEmpujar(s2, u, 1)

\* lines 36-58, u not yet included
PrimIncluye(g, s) ==
    LET u  == Head(s.heap)[2]
        s1 == [s EXCEPT !.heap = Tail(@),
                        !.visitado = [@ EXCEPT ![u] = TRUE],
                        !.mst = IF s.padre[u] # -1 THEN Append(@, <<s.padre[u], u>>) ELSE @]
        s2 == [s1 EXCEPT !.pasos = Append(@, PrimSnapshot(g, s1, u))]
    IN  PrimEmpujar(s2, u, 1)

\* Mutant: a popped node that was already included is given a Step again.
PrimSaltaRepite(s) ==
    LET u  == Head(s.heap)[2]
        s1 == [s EXCEPT !.heap = Tail(@)]
    IN  [s1 EXCEPT !.pasos = Append(@,
            [actual |-> u,
             visitados |-> Marcados(s1.visitado, Cardinality(DOMAIN s1.visitado), 0),
             mst |-> s1.mst])]

\* lines 36-39: the popped node was already included
PrimSalta(s) == [s EXCEPT !.heap = Tail(@)]

\* line 60
PrimFin(s) == [s EXCEPT !.pc = "done"]

PrimPaso(g, s) ==
    IF s.heap # <<>>
    THEN IF s.visitado[Head(s.heap)[2]] THEN PrimSalta(s) ELSE PrimIncluye(g, s)
    ELSE PrimFin(s)

RECURSIVE PrimCorre(_, _)
PrimCorre(g, s) == IF s.pc = "done" THEN s ELSE PrimCorre(g, PrimPaso(g, s))

prim_pasos(g) == PrimCorre(g, PrimInit(g))

PrimIncluir ==
    /\ pr.pc = "loop" /\ pr.heap # <<>>
    /\ ~pr.visitado[Head(pr.heap)[2]]
    /\ pr' = PrimIncluye(ga, pr)
    /\ UNCHANGED <<ga, bfs, dfs, dij, ast, bf, kr>>

PrimSaltar ==
    /\ pr.pc = "loop" /\ pr.heap # <<>>
    /\ pr.visitado[Head(pr.heap)[2]]
    /\ pr' = PrimSalta(pr)
    /\ UNCHANGED <<ga, bfs, dfs, dij, ast, bf, kr>>

PrimRetornar ==
    /\ pr.pc = "loop" /\ pr.heap = <<>>
    /\ pr' = PrimFin(pr)
    /\ UNCHANGED <<ga, bfs, dfs, dij, ast, bf, kr>>

PrimNext == PrimIncluir \/ PrimSaltar \/ PrimRetornar

InitPrim ==
    /\ ga \in GrafosDensos(MaxN)
    /\ pr = PrimInit(ga)
    /\ bfs = Idle /\ dfs = Idle /\ dij = Idle /\ ast = Idle /\ bf = Idle /\ kr = Idle

SpecPrim == InitPrim /\ [][PrimNext]_vars

(***************************************************************************)
(* grafo.py, GrafoActivo: the object and its method cargar on arbitrary     *)
(* arguments.  A matrix is a list of rows, each a list indexed from 0; the  *)
(* field `resultado` records how the last call of cargar ended.             *)
(***************************************************************************)
\* Largest number of rows, and of cells in a row, of an argument of cargar.
MaxFilas == 3
\* Largest length of the label list.
MaxNombres == 4

\* the label lists ["A", "B", ...] of length 0 .. MaxNombres
Etiquetas == {SubSeq(<<"A", "B", "C", "D", "E", "F">>, 1, l) : l \in 0 .. MaxNombres}

\* the lists of 1 .. MaxFilas rows, each row of 1 .. MaxFilas cells 0 or 1
Matrices ==
    UNION {[Nodos(r) -> UNION {[Nodos(c) -> 0 .. 1] : c \in 1 .. MaxFilas}] :
               r \in 1 .. MaxFilas}

\* lines 31-37: __init__.  The None of matriz and nombres is the empty list
\* and the None of G the empty edge set: cargar is never given an empty
\* matrix here, so "matriz is not None" is "matriz is not empty".
GrafoVacio ==
    [matriz |-> <<>>, nombres |-> <<>>, N |-> 0, G |-> {}, resultado |-> "sin_llamar"]

\* lines 69-72: the property `loaded`
loaded(o) == o.matriz # <<>>

\* every row has as many cells as there are rows
Cuadrada(m) == \A a \in DOMAIN m : Cardinality(DOMAIN m[a]) = Cardinality(DOMAIN m)

\* all rows have the same length (np.array builds a 2-D array)
Regular(m) == \A a, b \in DOMAIN m : Cardinality(DOMAIN m[a]) = Cardinality(DOMAIN m[b])

\* lines 57-64: the loops over the cells i < j from cell k on; G collects the
\* edges added, and an index outside a row or outside nombres raises
\* IndexError and leaves the loops
RECURSIVE CargarAristas(_, _, _, _, _)
CargarAristas(m, nombres, n, k, G) ==
    IF k >= n * n THEN [G |-> G, resultado |-> "ok"]
    ELSE LET a == k \div n
             b == k % n
         IN  IF a >= b THEN CargarAristas(m, nombres, n, k + 1, G)
             ELSE IF b \notin DOMAIN m[a] THEN [G |-> G, resultado |-> "IndexError"]
             ELSE IF m[a][b] > 0
                  THEN IF a >= Len(nombres) \/ b >= Len(nombres)
                       THEN [G |-> G, resultado |-> "IndexError"]
                       ELSE CargarAristas(m, nombres, n, k + 1,
                                G \cup {<<nombres[a + 1], nombres[b + 1], m[a][b]>>})
                  ELSE CargarAristas(m, nombres, n, k + 1, G)

\* lines 49-67 once np.array(matriz) has succeeded: the fields are assigned
\* first, then G is rebuilt
CargarAsigna(matriz, nombres) ==
    LET r == CargarAristas(matriz, nombres, Cardinality(DOMAIN matriz), 0, {})
    IN  [matriz |-> cargar(matriz).matriz, nombres |-> nombres, N |-> cargar(matriz).N,
         G |-> r.G, resultado |-> r.resultado]

\* GrafoActivo.cargar: the states the object can be left in.  On rows of
\* unequal length np.array either raises ValueError at line 49, before any
\* field is assigned (numpy >= 1.24), or builds an array of row objects
\* (older numpy).
GrafoActivoCargar(o, matriz, nombres) ==
    {CargarAsigna(matriz, nombres)}
        \cup (IF Regular(matriz) THEN {} ELSE {[o EXCEPT !.resultado = "ValueError"]})

\* a call of cargar on an object that was never loaded
Cargar ==
    /\ ga.resultado = "sin_llamar"
    /\ \E matriz \in Matrices, nombres \in Etiquetas :
           ga' \in GrafoActivoCargar(ga, matriz, nombres)
    /\ UNCHANGED <<bfs, dfs, dij, ast, bf, kr, pr>>

InitCargar ==
    /\ ga = GrafoVacio
    /\ bfs = Idle /\ dfs = Idle /\ dij = Idle /\ ast = Idle /\ bf = Idle /\ kr = Idle
    /\ pr = Idle

SpecCargar == InitCargar /\ [][Cargar]_vars

(***************************************************************************)
(* grafo.py, cargar_desde_json on a file whose JSON object has the key      *)
(* "matriz" (format 1).  While the file is read, ga holds the locals of the *)
(* call: `data` is the parsed object, `matriz` the list being rewritten in  *)
(* place, k the cell i * n + j the loops of lines 155-156 will test next.   *)
(* `data` keeps the values as they were parsed.  A missing key "nombres"    *)
(* and the returned None are the empty list.                                *)
(***************************************************************************)
\* Largest value of a cell of a matrix read from a file.
MaxValorJson == 2

\* the lists of 1 .. filas rows, each of 1 .. filas cells 0 .. MaxValorJson
MatricesJson(filas) ==
    UNION {[Nodos(r) -> UNION {[Nodos(c) -> 0 .. MaxValorJson] : c \in 1 .. filas}] :
               r \in 1 .. filas}

\* the values of the key "nombres": absent, or a list of two or three labels
NombresJson == {<<>>, <<"P", "Q">>, <<"P", "Q", "R">>}

\* max(a, b)
Mayor(a, b) == IF a >= b THEN a ELSE b

\* Mutant: the smaller of the two values is kept.
SimetrizarCeldaMenor(m, i, j) ==
    IF m[i][j] # m[j][i]
    THEN LET val == IF m[i][j] <= m[j][i] THEN m[i][j] ELSE m[j][i]
             m1  == [m EXCEPT ![i][j] = val]
         IN  [m1 EXCEPT ![j][i] = val]
    ELSE m

\* lines 157-160: the body of the loops for the cell (i, j)
SimetrizarCelda(m, i, j) ==
    IF m[i][j] # m[j][i]
    THEN LET val == Mayor(m[i][j], m[j][i])
             m1  == [m EXCEPT ![i][j] = val]
         IN  [m1 EXCEPT ![j][i] = val]
    ELSE m

\* lines 146-147, 150-152: the locals after the squareness check
JsonVerifica(data) ==
    IF Cuadrada(data.matriz)
    THEN [pc |-> "simetria", data |-> data, matriz |-> data.matriz,
          n |-> Cardinality(DOMAIN data.matriz), k |-> 0,
          nombres |-> <<>>, error |-> ""]
    ELSE [pc |-> "done", data |-> data, matriz |-> <<>>,
          n |-> Cardinality(DOMAIN data.matriz), k |-> 0,
          nombres |-> <<>>, error |-> "La matriz no es cuadrada"]

\* lines 155-160: one iteration of the inner loop
JsonCelda(s) ==
    [s EXCEPT !.matriz = SimetrizarCelda(@, s.k \div s.n, s.k % s.n), !.k = @ + 1]

\* lines 163-169: the default labels A, B, ... and the return
JsonFin(s) ==
    [s EXCEPT !.nombres = IF Len(s.data.nombres) # s.n
                          THEN SubSeq(<<"A", "B", "C", "D", "E", "F">>, 1, s.n)
                          ELSE s.data.nombres,
              !.pc = "done"]

JsonPaso(s) ==
    IF s.pc = "leer" THEN JsonVerifica(s.data)
    ELSE IF s.k < s.n * s.n THEN JsonCelda(s)
    ELSE JsonFin(s)

RECURSIVE JsonCorre(_)
JsonCorre(s) == IF s.pc = "done" THEN s ELSE JsonCorre(JsonPaso(s))

\* line 145: the parsed object has the key "matriz"
JsonInit(data) == [pc |-> "leer", data |-> data]

\* the whole call: (matriz, nombres, error) are fields of the result
cargar_desde_json(data) == JsonCorre(JsonInit(data))

JsonVerificar ==
    /\ ga.pc = "leer"
    /\ ga' = JsonVerifica(ga.data)
    /\ UNCHANGED <<bfs, dfs, dij, ast, bf, kr, pr>>

JsonSimetrizar ==
    /\ ga.pc = "simetria" /\ ga.k < ga.n * ga.n
    /\ ga' = JsonCelda(ga)
    /\ UNCHANGED <<bfs, dfs, dij, ast, bf, kr, pr>>

JsonRetornar ==
    /\ ga.pc = "simetria" /\ ga.k >= ga.n * ga.n
    /\ ga' = JsonFin(ga)
    /\ UNCHANGED <<bfs, dfs, dij, ast, bf, kr, pr>>

JsonNext == JsonVerificar \/ JsonSimetrizar \/ JsonRetornar

InitJson ==
    /\ \E matriz \in MatricesJson(MaxFilas), nombres \in NombresJson :
           ga = JsonInit([matriz |-> matriz, nombres |-> nombres])
    /\ bfs = Idle /\ dfs = Idle /\ dij = Idle /\ ast = Idle /\ bf = Idle /\ kr = Idle
    /\ pr = Idle

SpecJson == InitJson /\ [][JsonNext]_vars

(***************************************************************************)

(* Specifications over several algorithms: a behaviour is one call of one  *)
(* of the algorithms on one graph.                                         *)
(***************************************************************************)
Init == InitBfs \/ InitDfs \/ InitDijkstra \/ InitAStar \/ InitBellman
            \/ InitKruskal \/ InitPrim

Next == BfsNext \/ DfsNext \/ DijkstraNext \/ AStarNext \/ BellmanNext
            \/ KruskalNext \/ PrimNext

Spec == Init /\ [][Next]_vars

\* the three shortest-path algorithms
SpecCaminos ==
    (InitDijkstra \/ InitAStar \/ InitBellman)
        /\ [][DijkstraNext \/ AStarNext \/ BellmanNext]_vars

\* the three shortest-path algorithms, goals out of reach included
SpecInalcanzable ==
    (InitDijkstra \/ InitAStar \/ InitAStarLejos \/ InitBellman)
        /\ [][DijkstraNext \/ AStarNext \/ BellmanNext]_vars

\* the two spanning-tree algorithms
SpecMST == (InitKruskal \/ InitPrim) /\ [][KruskalNext \/ PrimNext]_vars

\* the two traversals
SpecRecorridos == (InitBfs \/ InitDfs) /\ [][BfsNext \/ DfsNext]_vars

\* Calls whose start or goal is not a node of the graph.  Largest node count
\* of the graphs of these calls:
MaxNIndices == 3

\* the indices tried on a graph of n nodes: every node, every negative index
\* down to -n-1, and n
IndicesProbados(n) == (0 - n - 1) .. n

InitIndices ==
    /\ ga \in GrafosDensos(MaxNIndices)
    /\ \E inicio \in IndicesProbados(ga.N), objetivo \in IndicesProbados(ga.N) :
           \/ /\ inicio \notin Nodos(ga.N) \/ objetivo \notin Nodos(ga.N)
              /\ \/ /\ dij = DijkstraInit(ga, inicio, objetivo)
                    /\ ast = Idle /\ bf = Idle
                 \/ /\ ast = AStarInit(ga, inicio, objetivo)
                    /\ dij = Idle /\ bf = Idle
                 \/ /\ bf = BellmanInit(ga, inicio, objetivo)
                    /\ dij = Idle /\ ast = Idle
              /\ bfs = Idle /\ dfs = Idle
           \/ /\ inicio \notin Nodos(ga.N)
              /\ \/ bfs = BfsInit(ga, inicio) /\ dfs = Idle
                 \/ dfs = DfsInit(ga, inicio) /\ bfs = Idle
              /\ dij = Idle /\ ast = Idle /\ bf = Idle
    /\ kr = Idle /\ pr = Idle

\* a_star_pasos takes no step on such a call (KeyError at line 46)
SpecIndices == InitIndices /\ [][DijkstraNext \/ BellmanNext \/ BfsNext \/ DfsNext]_vars

(***************************************************************************)
(* Reference notions the properties are stated against.                    *)
(***************************************************************************)
Min(S) == CHOOSE x \in S : \A y \in S : x <= y

\* the nodes one edge away from a node of S
Vecinos(g, S) == {v \in Nodos(g.N) : \E u \in S : g.matriz[u][v] > 0}

RECURSIVE Cierre(_, _)
Cierre(g, S) == IF Vecinos(g, S) \subseteq S THEN S ELSE Cierre(g, S \cup Vecinos(g, S))

\* the nodes reachable from s
Alcanzables(g, s) == Cierre(g, {s})

Conexo(g) == Alcanzables(g, 0) = Nodos(g.N)

Componentes(g) == {Alcanzables(g, v) : v \in Nodos(g.N)}

\* hop distance from the set S (at distance d) to v, -1 when unreachable
RECURSIVE NivelDesde(_, _, _, _)
NivelDesde(g, S, d, v) ==
    IF v \in S THEN d
    ELSE IF Vecinos(g, S) \subseteq S THEN -1
    ELSE NivelDesde(g, S \cup Vecinos(g, S), d + 1, v)

Nivel(g, s, v) == NivelDesde(g, {s}, 0, v)

\* the total weights of all simple paths from u to t avoiding `usados`
RECURSIVE CostosCaminos(_, _, _, _)
CostosCaminos(g, u, t, usados) ==
    IF u = t THEN {0}
    ELSE UNION {{g.matriz[u][v] + c : c \in CostosCaminos(g, v, t, usados \cup {v})} :
                    v \in {x \in Nodos(g.N) \ usados : g.matriz[u][x] > 0}}

\* brute-force shortest distance (the goal must be reachable)
DistanciaMinima(g, s, t) == Min(CostosCaminos(g, s, t, {s}))

\* sum of the graph weights of a list of edges (u, v)
PesoAristas(g, l) == SumaSeq([k \in 1 .. Len(l) |-> g.matriz[l[k][1]][l[k][2]]])

\* sum of the graph weights along a path
PesoCamino(g, c) ==
    SumaSeq([k \in 1 .. (Len(c) - 1) |-> g.matriz[c[k]][c[k + 1]]])

\* the 'mst' list of the final Step of a trace (empty trace: no edge)
MstFinal(pasos) == IF pasos = <<>> THEN <<>> ELSE pasos[Len(pasos)].mst

\* the Steps of a run (none for an algorithm that was not called)
PasosDe(r) == IF r.pc = "idle" THEN <<>> ELSE r.pasos

Prefijo(a, b) == Len(a) <= Len(b) /\ \A k \in 1 .. Len(a) : b[k] = a[k]

(***************************************************************************)
(* C1  Snapshot isolation                                                  *)
(***************************************************************************)
\* C1: in every algorithm, each action leaves every Step already in the
\* trace exactly as it was (all its fields) and the trace only grows at its
\* end.
C1_SnapshotIsolation ==
    [][/\ Prefijo(PasosDe(bfs), PasosDe(bfs)')
       /\ Prefijo(PasosDe(dfs), PasosDe(dfs)')
       /\ Prefijo(PasosDe(dij), PasosDe(dij)')
       /\ Prefijo(PasosDe(ast), PasosDe(ast)')
       /\ Prefijo(PasosDe(bf), PasosDe(bf)')
       /\ Prefijo(PasosDe(kr), PasosDe(kr)')
       /\ Prefijo(PasosDe(pr), PasosDe(pr)')]_vars

\* a Dijkstra run whose working dist, padre and visitado have all moved on
\* from what its first Step recorded
C1_Witness ==
    /\ dij.pc # "idle"
    /\ Len(dij.pasos) >= 2
    /\ dij.dist # dij.pasos[1].dist
    /\ dij.padre # dij.pasos[1].padre
    /\ dij.visitado # dij.pasos[1].visitados

(***************************************************************************)
(* C2  Dijkstra optimality                                                 *)
(***************************************************************************)
\* C2: when dijkstra_pasos has returned and the goal is reachable from the
\* start, dist[goal] is the least total weight of a start-goal path.
C2_DijkstraOptimo ==
    (dij.pc = "done" /\ dij.objetivo \in Alcanzables(ga, dij.inicio))
        => dij.dist[dij.objetivo] = DistanciaMinima(ga, dij.inicio, dij.objetivo)

\* a finished run whose goal is a neighbour of the start but is cheaper to
\* reach through other nodes (its distance was lowered after discovery)
C2_Witness ==
    /\ dij.pc = "done"
    /\ ga.matriz[dij.inicio][dij.objetivo] > 0
    /\ dij.dist[dij.objetivo] < ga.matriz[dij.inicio][dij.objetivo]

(***************************************************************************)
(* C3  A* against Dijkstra                                                 *)
(***************************************************************************)
\* C3 as stated: when a_star_pasos has returned and the goal is reachable,
\* g[goal] equals the dist[goal] of dijkstra_pasos on the same input.
C3_AStarIgualDijkstra ==
    (ast.pc = "done" /\ ast.objetivo \in Alcanzables(ga, ast.inicio))
        => ast.g[ast.objetivo]
               = dijkstra_pasos(ga, ast.inicio, ast.objetivo).dist[ast.objetivo]

\* C3 amended: g[goal] is never below Dijkstra's dist[goal], and equals it
\* on graphs of at most 4 nodes (grid heuristic below 2).
C3_AStarNoMenor ==
    (ast.pc = "done" /\ ast.objetivo \in Alcanzables(ga, ast.inicio))
        => LET d == dijkstra_pasos(ga, ast.inicio, ast.objetivo).dist[ast.objetivo]
           IN  /\ ast.g[ast.objetivo] >= d
               /\ ga.N <= 4 => ast.g[ast.objetivo] = d

\* a finished A* run that reports a cost above Dijkstra's
C3_Witness ==
    /\ ast.pc = "done"
    /\ ast.objetivo \in DOMAIN ast.g
    /\ ast.g[ast.objetivo]
           > dijkstra_pasos(ga, ast.inicio, ast.objetivo).dist[ast.objetivo]

(***************************************************************************)
(* C4  Kruskal and Prim total weight                                       *)
(***************************************************************************)
\* C4: on a connected graph, when prim_pasos has returned, the graph
\* weights of the edges of its final 'mst' add up to the same total as
\* those of the final 'mst' of kruskal_pasos.
C4_KruskalPrimPeso ==
    (pr.pc = "done" /\ Conexo(ga))
        => PesoAristas(ga, MstFinal(pr.pasos))
               = PesoAristas(ga, MstFinal(kruskal_pasos(ga).pasos))

(***************************************************************************)
(* C5  Path reconstruction round trip                                      *)
(***************************************************************************)
\* the clauses of C5 for one finished run
CaminoCoherente(g, inicio, objetivo, camino, pasos, costo) ==
    camino # <<>> =>
        /\ camino[1] = inicio
        /\ camino[Len(camino)] = objetivo
        /\ \A k \in 1 .. (Len(camino) - 1) : g.matriz[camino[k]][camino[k + 1]] > 0
        /\ pasos # <<>> => camino = Reconstruir(pasos[Len(pasos)].padre, objetivo)
        /\ PesoCamino(g, camino) = costo

\* C5: for Dijkstra, A* and Bellman-Ford, a returned non-empty path runs
\* from start to goal along edges of the graph, is the path rebuilt from
\* the final Step's parent map, and its edge weights add up to the reported
\* distance of the goal.
C5_CaminoIdaYVuelta ==
    /\ dij.pc = "done" =>
           CaminoCoherente(ga, dij.inicio, dij.objetivo, dij.camino, dij.pasos,
                           dij.dist[dij.objetivo])
    /\ ast.pc = "done" =>
           CaminoCoherente(ga, ast.inicio, ast.objetivo, ast.camino, ast.pasos,
                           ast.g[ast.objetivo])
    /\ bf.pc = "done" =>
           CaminoCoherente(ga, bf.origen, bf.objetivo, bf.camino, bf.pasos,
                           bf.dist[bf.objetivo])

(***************************************************************************)
(* C6  Kruskal minimality                                                  *)
(***************************************************************************)
\* the undirected edges of the graph, as pairs u < v
AristasNoDir(g) == {e \in Pares(g.N) : g.matriz[e[1]][e[2]] > 0}

\* the nodes joined to a node of S by the edges of T
RECURSIVE CierreCon(_, _)
CierreCon(T, S) ==
    LET R == S \cup {e[2] : e \in {x \in T : x[1] \in S}}
                 \cup {e[1] : e \in {x \in T : x[2] \in S}}
    IN  IF R = S THEN S ELSE CierreCon(T, R)

\* N-1 edges that join all N nodes: the spanning trees of the graph
ArbolesGeneradores(g) ==
    {T \in SUBSET AristasNoDir(g) :
        Cardinality(T) = g.N - 1 /\ CierreCon(T, {0}) = Nodos(g.N)}

RECURSIVE PesoConjunto(_, _)
PesoConjunto(g, T) ==
    IF T = {} THEN 0
    ELSE LET e == CHOOSE x \in T : TRUE
         IN  g.matriz[e[1]][e[2]] + PesoConjunto(g, T \ {e})

ConjuntoDe(l) == {l[k] : k \in 1 .. Len(l)}

\* C6: on a connected graph, when kruskal_pasos has returned, the accepted
\* edges are N-1 distinct edges joining all N nodes (a spanning tree) and
\* their total weight is the least total weight of a spanning tree.
C6_KruskalMinimo ==
    (kr.pc = "done" /\ Conexo(ga))
        => /\ Cardinality(ConjuntoDe(kr.mst)) = Len(kr.mst)
           /\ ConjuntoDe(kr.mst) \in ArbolesGeneradores(ga)
           /\ kr.mst = MstFinal(kr.pasos)
           /\ PesoAristas(ga, kr.mst)
                  = Min({PesoConjunto(ga, T) : T \in ArbolesGeneradores(ga)})

\* a finished run on a connected graph that rejected an edge and that has
\* a spanning tree heavier than the one returned
C6_Witness ==
    /\ kr.pc = "done" /\ Conexo(ga)
    /\ \E k \in 1 .. Len(kr.pasos) : ~kr.pasos[k].ok
    /\ \E T \in ArbolesGeneradores(ga) : PesoConjunto(ga, T) > PesoAristas(ga, kr.mst)

(***************************************************************************)
(* C7  Size of the MST                                                     *)
(***************************************************************************)
\* C7: when the call has returned, on any graph, Kruskal's final list has N
\* minus the number of components edges and Prim's has the size of node 0's
\* component minus one; either has N-1 edges exactly when the graph is
\* connected.
C7_TamanoMST ==
    /\ kr.pc = "done" =>
           /\ Len(MstFinal(kr.pasos)) = ga.N - Cardinality(Componentes(ga))
           /\ Len(MstFinal(kr.pasos)) = ga.N - 1 <=> Conexo(ga)
    /\ pr.pc = "done" =>
           /\ Len(MstFinal(pr.pasos)) = Cardinality(Alcanzables(ga, 0)) - 1
           /\ Len(MstFinal(pr.pasos)) = ga.N - 1 <=> Conexo(ga)

\* Prim has returned on a disconnected graph with at least one edge in its
\* list, fewer than a spanning forest has
C7_Witness ==
    /\ pr.pc = "done" /\ ~Conexo(ga)
    /\ Len(MstFinal(pr.pasos)) >= 1
    /\ Len(MstFinal(pr.pasos)) < ga.N - Cardinality(Componentes(ga))

(***************************************************************************)
(* C8  BFS / DFS completeness                                              *)
(***************************************************************************)
\* the visited set before Step k
VisitadosAntes(pasos, k) == IF k = 1 THEN {} ELSE pasos[k - 1].visitados

\* no Step shows an unreachable node as visited
SoloAlcanzables(g, inicio, pasos) ==
    \A k \in 1 .. Len(pasos) : pasos[k].visitados \subseteq Alcanzables(g, inicio)

\* every reachable node enters the visited set in exactly one Step, the one
\* whose current node it is, and the final visited set is the reachable set
RecorridoCompleto(g, inicio, pasos) ==
    /\ \A v \in Alcanzables(g, inicio) :
           /\ Cardinality({k \in 1 .. Len(pasos) : pasos[k].actual = v}) = 1
           /\ {k \in 1 .. Len(pasos) :
                  v \in pasos[k].visitados \ VisitadosAntes(pasos, k)}
                  = {k \in 1 .. Len(pasos) : pasos[k].actual = v}
    /\ pasos # <<>>
    /\ Cardinality(pasos[Len(pasos)].visitados)
           = Cardinality(Alcanzables(g, inicio))

\* C8: in bfs_pasos and dfs_pasos no unreachable node is ever visited, and
\* when the call has returned every reachable node was added to the visited
\* set by exactly one Step, its own, the final set being the reachable set.
C8_RecorridoCompleto ==
    /\ bfs.pc # "idle" =>
           /\ bfs.visitado \subseteq Alcanzables(ga, bfs.inicio)
           /\ SoloAlcanzables(ga, bfs.inicio, bfs.pasos)
           /\ bfs.pc = "done" => RecorridoCompleto(ga, bfs.inicio, bfs.pasos)
    /\ dfs.pc # "idle" =>
           /\ dfs.visitado \subseteq Alcanzables(ga, dfs.inicio)
           /\ SoloAlcanzables(ga, dfs.inicio, dfs.pasos)
           /\ dfs.pc = "done" => RecorridoCompleto(ga, dfs.inicio, dfs.pasos)

\* a finished BFS from a node other than 0 that reached three or more nodes
\* and left at least one node unreached
C8_Witness ==
    /\ bfs.pc = "done" /\ bfs.inicio # 0
    /\ Len(bfs.pasos) >= 3
    /\ Alcanzables(ga, bfs.inicio) # Nodos(ga.N)

(***************************************************************************)
(* C9  BFS level order                                                     *)
(***************************************************************************)
\* C9: in every trace of bfs_pasos the current nodes come in non-decreasing
\* hop distance, and before the Step of a node at distance d >= 1 there is
\* a Step for every node at distance d-1.
C9_BfsPorNiveles ==
    bfs.pc # "idle" =>
        \A j \in 1 .. Len(bfs.pasos) :
            LET d == Nivel(ga, bfs.inicio, bfs.pasos[j].actual)
            IN  /\ \A k \in 1 .. (j - 1) :
                       Nivel(ga, bfs.inicio, bfs.pasos[k].actual) <= d
                /\ d >= 1 =>
                       \A u \in Nodos(ga.N) :
                           Nivel(ga, bfs.inicio, u) = d - 1
                               => \E k \in 1 .. (j - 1) : bfs.pasos[k].actual = u

\* a node sits in the queue twice while a node two hops away has had its Step
C9_Witness ==
    /\ bfs.pc = "loop"
    /\ \E a, b \in 1 .. Len(bfs.cola) : a < b /\ bfs.cola[a] = bfs.cola[b]
    /\ \E j \in 1 .. Len(bfs.pasos) : Nivel(ga, bfs.inicio, bfs.pasos[j].actual) = 2

(***************************************************************************)
(* C10  The 7-node sample graph                                            *)
(***************************************************************************)
\* config.py, GRAFOS_EJEMPLO["Grafo 2 — 7 nodos"]: nodes S,T,U,V,W,X,Y = 0..6
Grafo2 ==
    cargar([a \in 0 .. 6 |-> [b \in 0 .. 6 |->
        (<< <<0,  4,  0,  0,  0,  0,  0>>,
            <<4,  0,  8,  0,  0,  0, 11>>,
            <<0,  8,  0,  7,  0,  4,  0>>,
            <<0,  0,  7,  0,  9, 14,  0>>,
            <<0,  0,  0,  9,  0, 10,  0>>,
            <<0,  0,  4, 14, 10,  0,  2>>,
            <<0, 11,  0,  0,  0,  2,  0>> >>)[a + 1][b + 1]]])

\* the edge list as the scenario words it: S-T:4, T-U:8, T-Y:11, U-V:7,
\* U-X:4, V-W:9, V-X:14, W-X:10, W-Y:2
GrafoEnunciado ==
    cargar(MatrizDe(7, (<<0, 1>> :> 4) @@ (<<1, 2>> :> 8) @@ (<<1, 6>> :> 11)
                       @@ (<<2, 3>> :> 7) @@ (<<2, 5>> :> 4) @@ (<<3, 4>> :> 9)
                       @@ (<<3, 5>> :> 14) @@ (<<4, 5>> :> 10) @@ (<<4, 6>> :> 2)))

InitEjemplo ==
    /\ ga \in {Grafo2, GrafoEnunciado}
    /\ \E inicio \in Nodos(ga.N), objetivo \in Nodos(ga.N) :
           dij = DijkstraInit(ga, inicio, objetivo)
    /\ bfs = Idle /\ dfs = Idle /\ ast = Idle /\ bf = Idle /\ kr = Idle /\ pr = Idle

SpecEjemplo == InitEjemplo /\ [][DijkstraNext]_vars

\* Dijkstra has returned from the call S -> W
DeSaW == dij.pc = "done" /\ dij.inicio = 0 /\ dij.objetivo = 4

\* C10 as stated: on the sample graph the call S -> W returns S,T,U,X,W or a
\* path of the same cost, and dist[W] = 21.
C10_EscenarioCosto21 ==
    DeSaW =>
        /\ dij.dist[4] = 21
        /\ dij.camino = <<0, 1, 2, 5, 4>> \/ PesoCamino(ga, dij.camino) = 21

\* C10 amended: on the sample graph of config.py (X-Y:2) the call returns
\* S,T,U,X,W with dist[W] = 26; on the edge list as worded (W-Y:2) it
\* returns S,T,Y,W with dist[W] = 17.  Either is the brute-force minimum.
C10_EscenarioReal ==
    DeSaW =>
        /\ ga = Grafo2 => dij.camino = <<0, 1, 2, 5, 4>> /\ dij.dist[4] = 26
        /\ ga = GrafoEnunciado => dij.camino = <<0, 1, 6, 4>> /\ dij.dist[4] = 17
        /\ dij.dist[4] = DistanciaMinima(ga, 0, 4)
        /\ PesoCamino(ga, dij.camino) = dij.dist[4]

\* the call S -> W has returned on the sample graph of config.py
C10_Witness == DeSaW /\ ga = Grafo2 /\ Len(dij.pasos) = 7

(***************************************************************************)
(* C11  Kruskal determinism and order                                      *)
(***************************************************************************)
\* (w1, i1, j1) before (w2, i2, j2): lighter, or equally heavy and earlier in
\* the row-major enumeration of the cells
AntesEnOrden(p, q) ==
    \/ p.w < q.w
    \/ p.w = q.w /\ (p.edge[1] < q.edge[1]
                        \/ (p.edge[1] = q.edge[1] /\ p.edge[2] < q.edge[2]))

\* C11: every Step of kruskal_pasos is for an undirected edge (a cell i < j
\* of weight > 0) with its weight, the Steps come in ascending weight with
\* equal weights in row-major order, and when the call has returned there is
\* exactly one Step per undirected edge (the loop does not stop once N-1
\* edges are accepted) and the trace is the one a second run produces.
C11_KruskalOrden ==
    kr.pc # "idle" =>
        /\ \A k \in 1 .. Len(kr.pasos) :
               /\ kr.pasos[k].edge \in AristasNoDir(ga)
               /\ kr.pasos[k].w = ga.matriz[kr.pasos[k].edge[1]][kr.pasos[k].edge[2]]
        /\ \A j, k \in 1 .. Len(kr.pasos) :
               j < k => AntesEnOrden(kr.pasos[j], kr.pasos[k])
        /\ kr.pc = "done" =>
               /\ Len(kr.pasos) = Cardinality(AristasNoDir(ga))
               /\ {kr.pasos[k].edge : k \in 1 .. Len(kr.pasos)} = AristasNoDir(ga)
               /\ kr.pasos = kruskal_pasos(ga).pasos

\* a returned run that had N-1 accepted edges before its last two Steps and
\* that examined two equally heavy edges one right after the other
C11_Witness ==
    /\ kr.pc = "done" /\ Len(kr.pasos) >= 3
    /\ Len(kr.pasos[Len(kr.pasos) - 2].mst) = ga.N - 1
    /\ \E k \in 1 .. (Len(kr.pasos) - 1) : kr.pasos[k].w = kr.pasos[k + 1].w

(***************************************************************************)
(* C12  Bellman-Ford relaxation Steps                                      *)
(***************************************************************************)
\* the directed edges of the matrix in row-major order, read off the matrix
\* cell by cell
AristasDirigidas(g) ==
    {a \in Nodos(g.N) \X Nodos(g.N) \X {g.matriz[x][y] : x, y \in Nodos(g.N)} :
        g.matriz[a[1]][a[2]] # 0 /\ a[3] = g.matriz[a[1]][a[2]]}

\* the position of the cell (u, v) in the row-major enumeration
Celda(g, u, v) == u * g.N + v

\* the edge (u, v, w) can be relaxed under the distances d
Relajable(d, a) == d[a[1]] # Inf /\ d[a[1]] + a[3] < d[a[2]]

\* the distances and parents the run had just before Step k was emitted
DistAntes(s, k) ==
    IF k = 1 THEN [x \in DOMAIN s.dist |-> IF x = s.origen THEN 0 ELSE Inf]
    ELSE s.pasos[k - 1].dist

PadreAntes(s, k) ==
    IF k = 1 THEN [x \in {s.origen} |-> None] ELSE s.pasos[k - 1].padre

\* Step k opens an outer iteration / closes one
AbreIteracion(s, k) == k = 1 \/ s.pasos[k - 1].iter < s.pasos[k].iter

CierraIteracion(s, k) == k = Len(s.pasos) \/ s.pasos[k].iter < s.pasos[k + 1].iter

\* the cells examined between the previous Step of the iteration (or its
\* start) and the edge of Step k
CeldasAntes(g, s, k) ==
    {a \in AristasDirigidas(g) :
        /\ Celda(g, a[1], a[2])
               < Celda(g, s.pasos[k].arista_evaluada[1], s.pasos[k].arista_evaluada[2])
        /\ ~AbreIteracion(s, k) =>
               Celda(g, a[1], a[2])
                   > Celda(g, s.pasos[k - 1].arista_evaluada[1],
                              s.pasos[k - 1].arista_evaluada[2])}

\* the cells examined after the edge of Step k in its iteration
CeldasDespues(g, s, k) ==
    {a \in AristasDirigidas(g) :
        Celda(g, a[1], a[2])
            > Celda(g, s.pasos[k].arista_evaluada[1], s.pasos[k].arista_evaluada[2])}

\* C12: every 'relajacion' Step of bellman_ford_pasos is for a directed edge
\* (u, v, w) of the matrix that was relaxable when it was examined; its
\* dist_anterior is the old dist[v], its dist_nueva is smaller and equals the
\* snapshot's dist[u] + w and dist[v], the snapshot's parent of v is u and
\* nothing else changed; and no edge examined between two Steps of an
\* iteration, before its first or after its last, was relaxable (Steps in
\* row-major order, one per relaxation, none for an edge not relaxed).
C12_BellmanRelajaciones ==
    bf.pc # "idle" =>
        \A k \in 1 .. Len(bf.pasos) :
            bf.pasos[k].tipo = "relajacion" =>
                LET p == bf.pasos[k]
                    u == p.arista_evaluada[1]
                    v == p.arista_evaluada[2]
                    d == DistAntes(bf, k)
                IN  /\ <<u, v, p.peso>> \in AristasDirigidas(ga)
                    /\ Relajable(d, <<u, v, p.peso>>)
                    /\ p.dist_anterior = d[v]
                    /\ p.dist_nueva < p.dist_anterior
                    /\ p.dist_nueva = p.dist[u] + p.peso
                    /\ p.dist[v] = p.dist_nueva
                    /\ p.dist = [d EXCEPT ![v] = p.dist_nueva]
                    /\ p.padre[v] = u
                    /\ p.padre = Put(PadreAntes(bf, k), v, u)
                    /\ p.cambio
                    /\ \A a \in CeldasAntes(ga, bf, k) : ~Relajable(d, a)
                    /\ CierraIteracion(bf, k) =>
                           \A a \in CeldasDespues(ga, bf, k) : ~Relajable(p.dist, a)

\* an outer iteration relaxed the same node twice, and a later iteration
\* relaxed again
C12_Witness ==
    /\ bf.pc = "done"
    /\ \E j, k \in 1 .. Len(bf.pasos) :
           /\ j < k /\ bf.pasos[j].tipo = "relajacion" /\ bf.pasos[k].tipo = "relajacion"
           /\ bf.pasos[j].iter = bf.pasos[k].iter
           /\ bf.pasos[j].arista_evaluada[2] = bf.pasos[k].arista_evaluada[2]
    /\ \E k \in 1 .. Len(bf.pasos) :
           bf.pasos[k].tipo = "relajacion" /\ bf.pasos[k].iter >= 2

(***************************************************************************)
(* C13  Bellman-Ford early termination                                     *)
(***************************************************************************)
\* the positions of the 'sin_cambios' Steps of a trace
SinCambiosEn(pasos) == {k \in 1 .. Len(pasos) : pasos[k].tipo = "sin_cambios"}

\* the outer loop has been left (by the break or by exhausting its range)
FueraDelBucle(g, s) == s.pc \in {"camino", "done", "colgado"} \/ s.i >= g.N - 1

\* C13: in bellman_ford_pasos every Step's iter lies in 1..N-1 and iter never
\* decreases nor skips an iteration; a 'sin_cambios' Step stands alone in its
\* iteration, which relaxed no edge and changed nothing, it is the last Step
\* of the trace and the outer loop has been left; there is at most one; and
\* an iteration that has run without relaxing an edge did emit it (the
\* iterations that have run are exactly the iter values of the trace).
C13_BellmanSinCambios ==
    bf.pc # "idle" =>
        /\ \A k \in 1 .. Len(bf.pasos) :
               /\ bf.pasos[k].iter \in 1 .. (ga.N - 1)
               /\ bf.pasos[k].iter = (IF k = 1 THEN 1
                                      ELSE IF AbreIteracion(bf, k)
                                           THEN bf.pasos[k - 1].iter + 1
                                           ELSE bf.pasos[k - 1].iter)
        /\ \A k \in SinCambiosEn(bf.pasos) :
               /\ k = Len(bf.pasos)
               /\ AbreIteracion(bf, k)
               /\ ~bf.pasos[k].cambio
               /\ bf.pasos[k].dist = DistAntes(bf, k)
               /\ bf.pasos[k].padre = PadreAntes(bf, k)
               /\ \A a \in AristasDirigidas(ga) : ~Relajable(bf.pasos[k].dist, a)
               /\ bf.pc # "loop"
               /\ bf.pasos[k].iter = bf.i + 1
        /\ Cardinality(SinCambiosEn(bf.pasos)) <= 1
        /\ Cardinality(SinCambiosEn(bf.pasos)) <= ga.N - 1
        /\ SinCambiosEn(bf.pasos) = {} =>
               /\ bf.pc # "camino"
               /\ bf.pasos # <<>> => bf.pasos[Len(bf.pasos)].iter = bf.i
               /\ bf.pasos = <<>> => bf.i = 0

\* the call returned after a 'sin_cambios' Step in its third iteration
C13_Witness ==
    /\ bf.pc = "done"
    /\ SinCambiosEn(bf.pasos) # {}
    /\ bf.pasos[Len(bf.pasos)].iter = 3
    /\ Len(bf.pasos) >= 4

(***************************************************************************)
(* C14  Bellman-Ford convergence                                           *)
(***************************************************************************)
\* C14: on a symmetric graph with non-negative weights, once the outer loop
\* of bellman_ford_pasos is over (after the 'sin_cambios' break or after all
\* N-1 iterations) and when the call has returned, no directed edge
\* (u, v, w) of the matrix has dist[u] finite and dist[u] + w < dist[v].
C14_BellmanConverge ==
    (bf.pc # "idle" /\ FueraDelBucle(ga, bf)) =>
        \A a \in AristasDirigidas(ga) : ~Relajable(bf.dist, a)

\* the call returned after N-1 = 3 outer iterations that all relaxed an edge
C14_Witness ==
    /\ bf.pc = "done" /\ ga.N = 4 /\ bf.i = 3
    /\ SinCambiosEn(bf.pasos) = {}
    /\ bf.pasos[Len(bf.pasos)].iter = 3

(***************************************************************************)
(* C15  Bellman-Ford on negative weights                                   *)
(***************************************************************************)
\* C15: on every symmetric weight matrix, negative entries included, and
\* every origin and goal, the call bellman_ford_pasos runs at most N-1 outer
\* iterations and then returns (steps, path, dist): it eventually reaches
\* its return.
C15_BellmanTermina == <>(bf.pc = "done")

(***************************************************************************)
(* C16  Unreachable goal                                                   *)
(***************************************************************************)
\* the distance vector the claim describes: every node of the graph has an
\* entry, the true shortest distance when reachable from s and +infinity
\* otherwise
VectorCompleto(g, s, d) ==
    /\ DOMAIN d = Nodos(g.N)
    /\ \A v \in Nodos(g.N) :
           d[v] = IF v \in Alcanzables(g, s) THEN DistanciaMinima(g, s, v) ELSE Inf

\* what a_star_pasos returns instead: a dict with an entry for the reachable
\* nodes only, none of them +infinity
DictAlcanzados(g, s, d) ==
    /\ DOMAIN d = Alcanzables(g, s)
    /\ \A v \in DOMAIN d : d[v] # Inf /\ d[v] >= DistanciaMinima(g, s, v)

\* the run r of Dijkstra or A* (start r.inicio) returned on an unreachable goal
SinCamino(g, r) == r.pc = "done" /\ r.objetivo \notin Alcanzables(g, r.inicio)

\* C16 as stated: when Dijkstra, A* or Bellman-Ford returns on a goal that is
\* not reachable from the start, the path is empty and the returned distance
\* structure has an entry for each of the N nodes, +infinity for the goal
\* and the other unreached nodes, the true shortest distance for the others.
C16_InalcanzableVector ==
    /\ SinCamino(ga, dij) => dij.camino = <<>> /\ VectorCompleto(ga, dij.inicio, dij.dist)
    /\ SinCamino(ga, ast) => ast.camino = <<>> /\ VectorCompleto(ga, ast.inicio, ast.g)
    /\ (bf.pc = "done" /\ bf.objetivo \notin Alcanzables(ga, bf.origen))
           => bf.camino = <<>> /\ VectorCompleto(ga, bf.origen, bf.dist)

\* C16 amended: Dijkstra and Bellman-Ford are as stated.  a_star_pasos
\* returns the empty path and a dict with an entry for the reachable nodes
\* only (no entry, hence no +infinity, for the goal and the other unreached
\* nodes); each entry is the cost of a path, the shortest distance on graphs
\* of at most 4 nodes and possibly more on larger ones.
C16_InalcanzableReal ==
    /\ SinCamino(ga, dij) => dij.camino = <<>> /\ VectorCompleto(ga, dij.inicio, dij.dist)
    /\ (bf.pc = "done" /\ bf.objetivo \notin Alcanzables(ga, bf.origen))
           => bf.camino = <<>> /\ VectorCompleto(ga, bf.origen, bf.dist)
    /\ SinCamino(ga, ast) =>
           /\ ast.camino = <<>>
           /\ DictAlcanzados(ga, ast.inicio, ast.g)
           /\ ga.N <= 4 =>
                  \A v \in DOMAIN ast.g : ast.g[v] = DistanciaMinima(ga, ast.inicio, v)

\* A* returned on an unreachable goal with a reached node whose entry is
\* above its shortest distance
C16_Witness ==
    /\ SinCamino(ga, ast)
    /\ \E v \in DOMAIN ast.g : ast.g[v] > DistanciaMinima(ga, ast.inicio, v)

(***************************************************************************)
(* C17  Graph load validation                                              *)
(***************************************************************************)
\* the object holds a matrix that is not square or a label list whose length
\* is not the number of rows
MalFormado(o) == loaded(o) /\ (~Cuadrada(o.matriz) \/ Len(o.nombres) # o.N)

\* C17: a call of GrafoActivo.cargar with a matrix that is not square or a
\* label list whose length differs from the number of rows fails, and the
\* object is never left loaded with such input.
C17_CargaValidada == ~MalFormado(ga) /\ (ga.resultado = "ok" => loaded(ga))

(***************************************************************************)
(* C18  Index validation                                                   *)
(***************************************************************************)
\* the outcomes of a call that count as failing with an index error
ErrorDeIndice == {"IndexError", "KeyError"}

\* the call r, with start `inicio` and goal `objetivo` (None for a traversal),
\* was given an index that is not a node of the graph
FueraDeRango(r, inicio, objetivo) ==
    /\ r.pc # "idle"
    /\ inicio \notin Nodos(ga.N) \/ (objetivo # None /\ objetivo \notin Nodos(ga.N))

\* the call r has not returned, and holds a Step only once it has failed
SinTraza(r) == r.pc # "done" /\ (r.pasos # <<>> => r.pc \in ErrorDeIndice)

\* C18: a call of dijkstra_pasos, a_star_pasos, bellman_ford_pasos, bfs_pasos
\* or dfs_pasos with a start or goal outside [0, N) (negative or >= N) fails
\* with an index error before any Step is produced and never returns a trace.
C18_IndicesValidados ==
    /\ dij.pc # "idle" /\ FueraDeRango(dij, dij.inicio, dij.objetivo) => SinTraza(dij)
    /\ ast.pc # "idle" /\ FueraDeRango(ast, ast.inicio, ast.objetivo) => SinTraza(ast)
    /\ bf.pc # "idle" /\ FueraDeRango(bf, bf.origen, bf.objetivo) => SinTraza(bf)
    /\ bfs.pc # "idle" /\ FueraDeRango(bfs, bfs.inicio, None) => SinTraza(bfs)
    /\ dfs.pc # "idle" /\ FueraDeRango(dfs, dfs.inicio, None) => SinTraza(dfs)

(***************************************************************************)
(* C19  Early stop at the goal                                             *)
(***************************************************************************)
\* the last Step of a non-empty trace
UltimoPaso(pasos) == pasos[Len(pasos)]

\* the goal is the current node of the last Step at most
ObjetivoSoloAlFinal(r) ==
    \A k \in 1 .. Len(r.pasos) : r.pasos[k].actual = r.objetivo => k = Len(r.pasos)

\* the goal has been finalized: it has its Step
ObjetivoFinalizado(r) == r.pc # "idle" /\ r.objetivo \in r.visitado

\* the call r has returned and its goal can be reached from its start
VolvioAlcanzable(r) ==
    r.pc = "done" /\ r.objetivo \in Alcanzables(ga, r.inicio)

\* what holds in every state of a call of dijkstra_pasos
ParadaDijkstra ==
    /\ dij.pc # "idle" => ObjetivoSoloAlFinal(dij)
    /\ VolvioAlcanzable(dij) =>
           dij.pasos # <<>> /\ UltimoPaso(dij.pasos).actual = dij.objetivo
    /\ ObjetivoFinalizado(dij) =>
           /\ dij.pc \in {"camino", "done"}
           /\ UltimoPaso(dij.pasos).actual = dij.objetivo
           /\ dij.dist = UltimoPaso(dij.pasos).dist
           /\ dij.padre = UltimoPaso(dij.pasos).padre

\* what holds in every state of a call of a_star_pasos
ParadaAStar ==
    /\ ast.pc # "idle" => ObjetivoSoloAlFinal(ast)
    /\ VolvioAlcanzable(ast) =>
           ast.pasos # <<>> /\ UltimoPaso(ast.pasos).actual = ast.objetivo
    /\ ObjetivoFinalizado(ast) =>
           /\ ast.pc \in {"camino", "done"}
           /\ UltimoPaso(ast.pasos).actual = ast.objetivo
           /\ ast.g = UltimoPaso(ast.pasos).g
           /\ ast.padre = UltimoPaso(ast.pasos).padre

\* a step taken once the goal is finalized pushes nothing on the heap,
\* relaxes nothing and appends no Step
SinTrabajoTrasObjetivo ==
    /\ ObjetivoFinalizado(dij) =>
           /\ dij'.pq = dij.pq /\ dij'.dist = dij.dist
           /\ dij'.padre = dij.padre /\ dij'.pasos = dij.pasos
    /\ ObjetivoFinalizado(ast) =>
           /\ ast'.pq = ast.pq /\ ast'.g = ast.g
           /\ ast'.padre = ast.padre /\ ast'.pasos = ast.pasos

\* C19: in dijkstra_pasos and a_star_pasos, when the goal is reachable from
\* the start the last Step of the returned trace has the goal as its current
\* node, the goal is the current node of no earlier Step, and after the goal
\* is finalized nothing is relaxed or pushed on the heap, so the returned
\* distances and parents are those of the last Step.
C19_ParadaEnObjetivo ==
    [](ParadaDijkstra /\ ParadaAStar) /\ [][SinTrabajoTrasObjetivo]_vars

\* Dijkstra returned at a goal other than the start while reachable nodes
\* were still unvisited and entries were left on the heap
C19_Witness ==
    /\ VolvioAlcanzable(dij)
    /\ dij.objetivo # dij.inicio
    /\ dij.pq # <<>>
    /\ Alcanzables(ga, dij.inicio) \ dij.visitado # {}
    /\ UltimoPaso(dij.pasos).actual = dij.objetivo

(***************************************************************************)
(* C20  Read-only graph and independent runs                               *)
(***************************************************************************)
\* Two algorithms called on the same loaded GrafoActivo, their steps
\* interleaved in every order.  Largest node count of these graphs:
MaxNConc == 3

\* the objects left by cargar on the symmetric matrices of 1 .. maxn nodes
\* with the labels "A", "B", ...
GrafosCargados(maxn) ==
    UNION {{CargarAsigna(MatrizDe(n, w), SubSeq(<<"A", "B", "C", "D", "E", "F">>, 1, n)) :
                w \in [Pares(n) -> 0 .. MaxPeso]} : n \in 1 .. maxn}

Algoritmos == {"bfs", "dfs", "dijkstra", "a_star", "bellman_ford", "kruskal", "prim"}

\* config.py, GRAFOS_EJEMPLO["Grafo 2 — 7 nodos"] as cargar leaves it
Grafo2Cargado == CargarAsigna(Grafo2.matriz, <<"S", "T", "U", "V", "W", "X", "Y">>)

InitConcurrente ==
    /\ ga \in GrafosCargados(MaxNConc) \cup {Grafo2Cargado}
    /\ \E inicio \in Nodos(ga.N), objetivo \in Nodos(ga.N) :
       \E par \in {P \in SUBSET Algoritmos : Cardinality(P) = 2} :
           /\ bfs = IF "bfs" \in par THEN BfsInit(ga, inicio) ELSE Idle
           /\ dfs = IF "dfs" \in par THEN DfsInit(ga, inicio) ELSE Idle
           /\ dij = IF "dijkstra" \in par THEN DijkstraInit(ga, inicio, objetivo) ELSE Idle
           /\ ast = IF "a_star" \in par THEN AStarInit(ga, inicio, objetivo) ELSE Idle
           /\ bf = IF "bellman_ford" \in par THEN BellmanInit(ga, inicio, objetivo) ELSE Idle
           /\ kr = IF "kruskal" \in par THEN KruskalInit(ga) ELSE Idle
           /\ pr = IF "prim" \in par THEN PrimInit(ga) ELSE Idle

SpecConcurrente == InitConcurrente /\ [][Next]_vars

\* the list p is the beginning of the list q
EsPrefijo(p, q) == Len(p) <= Len(q) /\ SubSeq(q, 1, Len(p)) = p

\* the run r is where the call `solo`, run alone on the graph, passes
\* through: its trace so far begins the trace of `solo`, and once returned
\* all its results are those of `solo`
ComoSola(r, solo) ==
    r.pc # "idle" => EsPrefijo(r.pasos, solo.pasos) /\ (r.pc = "done" => r = solo)

\* every run in progress agrees with its call run alone
CorridasIndependientes ==
    /\ ComoSola(bfs, bfs_pasos(ga, bfs.inicio))
    /\ ComoSola(dfs, dfs_pasos(ga, dfs.inicio))
    /\ ComoSola(dij, dijkstra_pasos(ga, dij.inicio, dij.objetivo))
    /\ ComoSola(ast, a_star_pasos(ga, ast.inicio, ast.objetivo))
    /\ ComoSola(bf, bellman_ford_pasos(ga, bf.origen, bf.objetivo))
    /\ ComoSola(kr, kruskal_pasos(ga))
    /\ ComoSola(pr, prim_pasos(ga))

\* no step changes the matrix, the labels, N or the networkx graph
GrafoIntacto ==
    /\ ga'.matriz = ga.matriz /\ ga'.nombres = ga.nombres
    /\ ga'.N = ga.N /\ ga'.G = ga.G

\* C20: no step of any algorithm changes the graph's matrix, labels or N, and
\* when the runs of two algorithms on the same GrafoActivo are interleaved
\* step by step each run produces exactly the trace and the result it
\* produces when run alone.
C20_GrafoSoloLectura == []CorridasIndependientes /\ [][GrafoIntacto]_vars

\* the two traversals are both in the middle of their runs on the same graph,
\* each with Steps made and nodes still to visit
C20_Witness ==
    /\ bfs.pc = "loop" /\ bfs.pasos # <<>> /\ bfs.cola # <<>>
    /\ dfs.pc = "loop" /\ dfs.pasos # <<>> /\ dfs.visitado # Alcanzables(ga, dfs.inicio)
    /\ bfs.visitado # dfs.visitado

(***************************************************************************)
(* C21  Append-only progress                                               *)
(***************************************************************************)
\* the current node and the visited set of every Step of a trace whose Steps
\* hold the visited nodes as a set
Visitas(pasos) ==
    [k \in 1 .. Len(pasos) |-> [actual |-> pasos[k].actual, vis |-> pasos[k].visitados]]

\* the same for prim_pasos, whose Steps hold the visited nodes as a list
VisitasPrim(pasos) ==
    [k \in 1 .. Len(pasos) |->
        [actual |-> pasos[k].actual, vis |-> ConjuntoDe(pasos[k].visitados)]]

\* the first visited set is the first current node, every later one is the
\* previous one plus the Step's own current node, which is new; no node is
\* current twice and there are at most n Steps
SoloCrece(t, n) ==
    /\ \A k \in 1 .. Len(t) :
           IF k = 1 THEN t[k].vis = {t[k].actual}
           ELSE /\ t[k].actual \notin t[k - 1].vis
                /\ t[k].vis = t[k - 1].vis \cup {t[k].actual}
    /\ \A j, k \in 1 .. Len(t) : t[j].actual = t[k].actual => j = k
    /\ Len(t) <= n

\* every Step's mst is the previous Step's mst, with the Step's edge appended
\* when ok is true
MstSoloCrece(pasos) ==
    \A k \in 1 .. Len(pasos) :
        LET antes == IF k = 1 THEN <<>> ELSE pasos[k - 1].mst
        IN  pasos[k].mst = IF pasos[k].ok THEN Append(antes, pasos[k].edge) ELSE antes

\* C21: in the traces of BFS, DFS, Dijkstra, A* and Prim the first Step's
\* visited set is exactly its current node and every later Step's visited set
\* is the previous Step's plus its own current node, which was not in it (no
\* node is current twice, at most N Steps); in the Kruskal trace every Step's
\* mst is the previous Step's mst with the Step's edge appended if ok is true
\* and unchanged otherwise.
C21_SoloCrece ==
    /\ bfs.pc # "idle" => SoloCrece(Visitas(bfs.pasos), ga.N)
    /\ dfs.pc # "idle" => SoloCrece(Visitas(dfs.pasos), ga.N)
    /\ dij.pc # "idle" => SoloCrece(Visitas(dij.pasos), ga.N)
    /\ ast.pc # "idle" => SoloCrece(Visitas(ast.pasos), ga.N)
    /\ pr.pc # "idle" => SoloCrece(VisitasPrim(pr.pasos), ga.N)
    /\ kr.pc # "idle" => MstSoloCrece(kr.pasos)

\* Prim has made three Steps and its heap still holds an entry of a node
\* that is already included
C21_Witness ==
    /\ pr.pc = "loop" /\ Len(pr.pasos) >= 3
    /\ \E i \in DOMAIN pr.heap : pr.visitado[pr.heap[i][2]]

(***************************************************************************)
(* C22  Prim parent edge                                                   *)
(***************************************************************************)
\* the step includes the node at the top of the heap
PrimIncluyeNodo == pr.pc = "loop" /\ Len(pr'.pasos) = Len(pr.pasos) + 1

\* the edge appended for the popped entry (w, u) is (p, u) for an included
\* node p whose edge to u has the popped weight w; the root appends no edge
AristaDelPopeado ==
    LET w == Head(pr.heap)[1]
        u == Head(pr.heap)[2]
    IN  IF u = 0 THEN pr'.mst = pr.mst
        ELSE \E p \in Nodos(ga.N) :
                 /\ pr.visitado[p]
                 /\ pr'.mst = Append(pr.mst, <<p, u>>)
                 /\ ga.matriz[p][u] = w

\* C22: whenever prim_pasos includes a non-root node u by popping the heap
\* entry (w, u), the edge appended to the MST is (p, u) with p the included
\* node whose expansion pushed that entry, so the weight of the appended edge
\* in the graph is the popped priority w; the root node 0 never gets a parent
\* and contributes no edge.
C22_PrimAristaPadre ==
    /\ [](pr.pc # "idle" => pr.padre[0] = -1)
    /\ [][PrimIncluyeNodo => AristaDelPopeado]_vars

(***************************************************************************)
(* C23  Kruskal acceptance and union-find                                  *)
(***************************************************************************)
\* x and y are joined by the edges of the list l
Conectados(l, x, y) == y \in CierreCon(ConjuntoDe(l), {x})

\* the number of groups into which the edges of the list l join n nodes
Grupos(l, n) == Cardinality({CierreCon(ConjuntoDe(l), {x}) : x \in Nodos(n)})

\* find(x) == find(y) exactly for the nodes joined by the accepted edges
UnionFindFiel ==
    \A x, y \in Nodos(ga.N) :
        (find(kr.padre_uf, x).raiz = find(kr.padre_uf, y).raiz)
            <=> Conectados(kr.mst, x, y)

\* a Step is accepted exactly when its edge joins two nodes that the edges
\* accepted before it do not join
AceptaSiSepara ==
    \A k \in 1 .. Len(kr.pasos) :
        LET antes == IF k = 1 THEN <<>> ELSE kr.pasos[k - 1].mst
        IN  kr.pasos[k].ok
                <=> ~Conectados(antes, kr.pasos[k].edge[1], kr.pasos[k].edge[2])

\* the accepted edges are distinct and hold no cycle: each of them lowers the
\* number of groups by one
SinCiclo ==
    /\ Cardinality(ConjuntoDe(kr.mst)) = Len(kr.mst)
    /\ Grupos(kr.mst, ga.N) = ga.N - Len(kr.mst)

\* C23: in kruskal_pasos, before each edge is examined (and at the return),
\* find(x) == find(y) holds exactly when x and y are connected by the edges
\* accepted so far; a Step's ok is true if and only if its edge joins two
\* nodes not yet connected by the edges accepted before it; the accepted
\* edges never contain a cycle.
C23_KruskalUnionFind ==
    kr.pc # "idle" => UnionFindFiel /\ AceptaSiSepara /\ SinCiclo

\* an edge was rejected and the union-find holds a chain of two links, which
\* the next find of its lowest node compresses
C23_Witness ==
    /\ kr.pc = "loop" /\ kr.k <= Len(kr.aristas)
    /\ \E k \in 1 .. Len(kr.pasos) : ~kr.pasos[k].ok
    /\ \E x \in Nodos(ga.N) :
           /\ kr.padre_uf[x] # x
           /\ kr.padre_uf[kr.padre_uf[x]] # kr.padre_uf[x]
           /\ x \in {kr.aristas[kr.k][1], kr.aristas[kr.k][2]}

(***************************************************************************)
(* C24  BFS first-discovery parent                                         *)
(***************************************************************************)
\* the parent maps of the Steps in order, followed by the current one
PadresBfs == [k \in 1 .. Len(bfs.pasos) + 1 |->
                 IF k <= Len(bfs.pasos) THEN bfs.pasos[k].padre ELSE bfs.padre]

\* the index of the Step whose current node is u, 0 when u has none
PasoDe(pasos, u) ==
    IF \E k \in 1 .. Len(pasos) : pasos[k].actual = u
    THEN CHOOSE k \in 1 .. Len(pasos) : pasos[k].actual = u
    ELSE 0

\* an entry of a parent map is the same in every later map
PadreFijo ==
    \A j, k \in 1 .. Len(PadresBfs) :
        j < k => \A v \in DOMAIN PadresBfs[j] :
                     v \in DOMAIN PadresBfs[k] /\ PadresBfs[k][v] = PadresBfs[j][v]

\* the parent p of v is a neighbour of v that has its Step, no neighbour of v
\* has an earlier Step, and p is one hop closer to the start than v
PadreEsPrimerVecino ==
    \A v \in DOMAIN bfs.padre \ {bfs.inicio} :
        LET p == bfs.padre[v]
        IN  /\ p \in Nodos(ga.N) /\ ga.matriz[p][v] > 0
            /\ PasoDe(bfs.pasos, p) > 0
            /\ \A u \in Nodos(ga.N) :
                   ga.matriz[u][v] > 0 /\ PasoDe(bfs.pasos, u) > 0
                       => PasoDe(bfs.pasos, p) <= PasoDe(bfs.pasos, u)
            /\ Nivel(ga, bfs.inicio, p) = Nivel(ga, bfs.inicio, v) - 1

\* the start has the parent None in every map
RaizSinPadre ==
    \A k \in 1 .. Len(PadresBfs) :
        bfs.inicio \in DOMAIN PadresBfs[k] /\ PadresBfs[k][bfs.inicio] = None

\* C24: in bfs_pasos, once a node has an entry in some Step's parent map it
\* has the same parent in every later Step; that parent is the
\* earliest-dequeued neighbour of the node, its hop distance from the start is
\* exactly one less than the node's, and the parent of the start is always
\* none.
C24_BfsPadrePrimero ==
    bfs.pc # "idle" => PadreFijo /\ PadreEsPrimerVecino /\ RaizSinPadre

\* a node not yet dequeued has two neighbours with a Step, and its parent is
\* the one dequeued first
C24_Witness ==
    /\ bfs.pc = "loop"
    /\ \E v \in DOMAIN bfs.padre \ (bfs.visitado \cup {bfs.inicio}) :
       \E u \in Nodos(ga.N) \ {bfs.padre[v]} :
           /\ ga.matriz[u][v] > 0
           /\ PasoDe(bfs.pasos, u) > PasoDe(bfs.pasos, bfs.padre[v])
           /\ bfs.inicio \notin {u, bfs.padre[v]}

(***************************************************************************)
(* C25  DFS pre-order                                                      *)
(***************************************************************************)
\* the neighbours of x that the Step p has not visited
Libres(g, p, x) == {v \in Nodos(g.N) : g.matriz[x][v] > 0 /\ v \notin p.visitados}

\* the descent path of the Step p: its current node, the parent of it, ...
\* up to the start
Descenso(g, p) == Subir(p.padre, p.actual, g.N + 1)

\* the positions on the descent path of p, counted from the deepest node,
\* of the nodes that still have an unvisited neighbour
ConLibres(g, p) ==
    {i \in 1 .. Len(Descenso(g, p)) : Libres(g, p, Descenso(g, p)[i]) # {}}

\* the Step q follows the Step p in the pre-order: q visits the lowest-index
\* unvisited neighbour of the deepest node x of the descent path of p that
\* has one, and records x as its parent
SigueEnPreOrden(g, p, q) ==
    /\ ConLibres(g, p) # {}
    /\ LET x == Descenso(g, p)[Min(ConLibres(g, p))]
       IN  /\ q.actual = Min(Libres(g, p, x))
           /\ q.actual \in DOMAIN q.padre /\ q.padre[q.actual] = x

\* C25: the trace of dfs_pasos is the pre-order of the depth-first traversal
\* that always descends to the lowest-index unvisited neighbour: it starts at
\* the start node, each later Step visits the lowest-index unvisited
\* neighbour of the deepest node of the current descent path that still has
\* one and records that node as the parent of the new node, a returned trace
\* leaves no node of the descent path with an unvisited neighbour, and in
\* every Step the keys of the parent map are exactly the visited set.
C25_DfsPreOrden ==
    dfs.pc \notin {"idle", "call"} =>
        /\ dfs.pasos[1].actual = dfs.inicio
        /\ \A k \in 1 .. (Len(dfs.pasos) - 1) :
               SigueEnPreOrden(ga, dfs.pasos[k], dfs.pasos[k + 1])
        /\ dfs.pc = "done" => ConLibres(ga, dfs.pasos[Len(dfs.pasos)]) = {}
        /\ \A k \in 1 .. Len(dfs.pasos) :
               DOMAIN dfs.pasos[k].padre = dfs.pasos[k].visitados

\* a Step was made after a return: its parent is not the current node of the
\* Step before it, and that parent had two unvisited neighbours to choose from
C25_Witness ==
    /\ dfs.pc = "loop"
    /\ \E k \in 1 .. (Len(dfs.pasos) - 1) :
           LET p == dfs.pasos[k]
               q == dfs.pasos[k + 1]
           IN  /\ q.padre[q.actual] # p.actual
               /\ Cardinality(Libres(ga, p, q.padre[q.actual])) >= 2

(***************************************************************************)
(* C26  Dijkstra: finalized nodes are final                                *)
(***************************************************************************)
\* the distances and parents of the Steps in order, followed by the current
\* ones (the returned ones once the call has returned)
EstadosDijkstra ==
    [k \in 1 .. Len(dij.pasos) + 1 |->
        IF k <= Len(dij.pasos)
        THEN [dist |-> dij.pasos[k].dist, padre |-> dij.pasos[k].padre]
        ELSE [dist |-> dij.dist, padre |-> dij.padre]]

\* C26: in dijkstra_pasos on a graph with positive weights, once a node is
\* the current node of a Step its distance and its parent are the same in
\* every later Step and in the returned result, and that distance is the
\* true shortest distance from the start.
C26_DijkstraFinalizados ==
    dij.pc # "idle" =>
        \A j \in 1 .. Len(dij.pasos) :
            LET u == dij.pasos[j].actual
                e == EstadosDijkstra[j]
            IN  /\ u \in DOMAIN e.padre
                /\ e.dist[u] = DistanciaMinima(ga, dij.inicio, u)
                /\ \A k \in (j + 1) .. Len(EstadosDijkstra) :
                       /\ EstadosDijkstra[k].dist[u] = e.dist[u]
                       /\ u \in DOMAIN EstadosDijkstra[k].padre
                       /\ EstadosDijkstra[k].padre[u] = e.padre[u]

\* the call returned after three Steps or more, having relaxed edges towards
\* finalized neighbours and with a stale heap entry of a finalized node left
C26_Witness ==
    /\ dij.pc = "done" /\ Len(dij.pasos) >= 3
    /\ \E i \in DOMAIN dij.pq : dij.pq[i][2] \in dij.visitado

(***************************************************************************)
(* C27  A*: finalized nodes are final                                      *)
(***************************************************************************)
\* the accumulated costs and parents of the Steps in order, followed by the
\* current ones (the returned ones once the call has returned)
EstadosAStar ==
    [k \in 1 .. Len(ast.pasos) + 1 |->
        IF k <= Len(ast.pasos)
        THEN [g |-> ast.pasos[k].g, padre |-> ast.pasos[k].padre]
        ELSE [g |-> ast.g, padre |-> ast.padre]]

\* C27: in a_star_pasos on a graph with positive weights, once a node is the
\* current node of a Step (is in the visited set) its accumulated cost g and
\* its parent are the same in every later Step and in the returned result.
C27_AStarFinalizados ==
    ast.pc # "idle" =>
        \A j \in 1 .. Len(ast.pasos) :
            LET u == ast.pasos[j].actual
                e == EstadosAStar[j]
            IN  \A k \in (j + 1) .. Len(EstadosAStar) :
                    /\ EstadosAStar[k].g[u] = e.g[u]
                    /\ EstadosAStar[k].padre[u] = e.padre[u]

(***************************************************************************)
(* C28  Loader symmetry                                                    *)
(***************************************************************************)
\* the call returned a matrix
JsonCargado == ga.pc = "done" /\ ga.error = ""

\* C28: for a JSON input in matrix format whose matrix is square,
\* cargar_desde_json returns a matrix in which every cell (i, j) equals the
\* cell (j, i) and both equal the maximum of the two original values, for
\* all i and j; cells that were already symmetric are unchanged.
C28_CargaSimetrica ==
    /\ ga.pc = "done" => (JsonCargado <=> Cuadrada(ga.data.matriz))
    /\ JsonCargado =>
           \A i, j \in Nodos(ga.n) :
               /\ ga.matriz[i][j] = ga.matriz[j][i]
               /\ ga.matriz[i][j] = Mayor(ga.data.matriz[i][j], ga.data.matriz[j][i])
               /\ ga.data.matriz[i][j] = ga.data.matriz[j][i]
                      => ga.matriz[i][j] = ga.data.matriz[i][j]

\* a 3 x 3 matrix was returned that had a pair of unequal cells with the
\* larger value below the diagonal, another with it above, and a symmetric pair
C28_Witness ==
    /\ JsonCargado /\ ga.n = 3
    /\ \E i, j \in Nodos(ga.n) : i < j /\ ga.data.matriz[i][j] < ga.data.matriz[j][i]
    /\ \E i, j \in Nodos(ga.n) : i < j /\ ga.data.matriz[i][j] > ga.data.matriz[j][i]
    /\ \E i, j \in Nodos(ga.n) :
           i < j /\ ga.data.matriz[i][j] = ga.data.matriz[j][i] /\ ga.matriz[i][j] > 0

(***************************************************************************)
(* C29  Dijkstra finalization order                                        *)
(***************************************************************************)
\* the entry the next iteration pops is of a node not yet finalized
PopDeNoFinalizado ==
    dij.pc = "loop" /\ dij.pq # <<>> /\ Head(dij.pq)[2] \notin dij.visitado

\* the distance of the current node of the k-th Step, in that Step
DistActual(pasos, k) == pasos[k].dist[pasos[k].actual]

\* C29: in dijkstra_pasos on a graph with positive weights, whenever a node
\* not yet finalized is popped the popped key is the current dist of the node
\* (a stale heap entry is only ever popped for a finalized node), and the
\* distances of the current nodes are non-decreasing along the trace.
C29_DijkstraOrden ==
    /\ PopDeNoFinalizado => Head(dij.pq)[1] = dij.dist[Head(dij.pq)[2]]
    /\ dij.pc # "idle" =>
           \A k \in 1 .. (Len(dij.pasos) - 1) :
               DistActual(dij.pasos, k) <= DistActual(dij.pasos, k + 1)

\* a node not yet finalized is about to be popped while a stale entry of it,
\* with a larger key, waits further down the heap, after three Steps whose
\* distances grew
C29_Witness ==
    /\ PopDeNoFinalizado
    /\ \E i \in 2 .. Len(dij.pq) :
           dij.pq[i][2] = Head(dij.pq)[2] /\ dij.pq[i][1] > Head(dij.pq)[1]
    /\ Len(dij.pasos) >= 2
    /\ DistActual(dij.pasos, 1) < DistActual(dij.pasos, Len(dij.pasos))

(***************************************************************************)
(* C30  Prim tree shape                                                    *)
(***************************************************************************)
\* the mst of the Step p is a tree spanning exactly the visited nodes of p:
\* its edges are distinct, join the visited nodes and no other, and are one
\* fewer than the visited nodes
ArbolDeVisitados(p) ==
    /\ Cardinality(ConjuntoDe(p.mst)) = Len(p.mst)
    /\ CierreCon(ConjuntoDe(p.mst), {p.actual}) = ConjuntoDe(p.visitados)
    /\ Len(p.mst) = Len(p.visitados) - 1

\* the Step q, made after the Step p, appends one edge (x, u) of the graph
\* from a node x that p had included to its own current node u, which p had not
CreceConArista(g, p, q) ==
    /\ Len(q.mst) = Len(p.mst) + 1
    /\ SubSeq(q.mst, 1, Len(p.mst)) = p.mst
    /\ LET e == q.mst[Len(q.mst)]
       IN  /\ e[2] = q.actual
           /\ e[1] \in ConjuntoDe(p.visitados)
           /\ e[2] \notin ConjuntoDe(p.visitados)
           /\ e[1] \in Nodos(g.N) /\ g.matriz[e[1]][e[2]] > 0

\* C30: in every Step of prim_pasos on a symmetric graph the mst list is a
\* tree spanning exactly that Step's visited set: each edge (p, u) appended
\* at the Step that includes u is an existing edge of the graph, p was
\* already included in the previous Step and u was not, and the number of
\* MST edges is the number of visited nodes minus one.
C30_PrimArbol ==
    pr.pc # "idle" =>
        /\ \A k \in 1 .. Len(pr.pasos) : ArbolDeVisitados(pr.pasos[k])
        /\ \A k \in 1 .. (Len(pr.pasos) - 1) :
               CreceConArista(ga, pr.pasos[k], pr.pasos[k + 1])

\* the call returned with all four nodes included, and one of its edges
\* (p, u) is heavier than another edge that joined u to a node included
\* before u
C30_Witness ==
    /\ pr.pc = "done" /\ Len(pr.pasos) = 4
    /\ \E k \in 1 .. (Len(pr.pasos) - 1) :
           LET e == pr.pasos[k + 1].mst[Len(pr.pasos[k + 1].mst)]
           IN  \E x \in ConjuntoDe(pr.pasos[k].visitados) :
                   ga.matriz[x][e[2]] > 0 /\ ga.matriz[x][e[2]] < ga.matriz[e[1]][e[2]]

====
